---- MODULE Spec2Model ----
(***************************************************************************)
(* A model of the SEO aggregation controller of hrseo-backend.             *)
(*                                                                         *)
(* The repository holds two revisions of the controller:                   *)
(*   "v1"  src/src/controllers/seo.controller.ts                           *)
(*   "v2"  src/unnamed/part_011 (from line 29 on)                          *)
(* The variable ver says which revision is deployed.  One request is in    *)
(* flight at a time; every provider call is one step whose outcome (a      *)
(* failure, or one of a small set of vendor answers) is chosen by the      *)
(* environment.                                                            *)
(*                                                                         *)
(* Spec is the SEO controller, ScoreSpec the pure functions and the        *)
(* middleware checkAuthorization applied to drawn inputs, AwaitSpec the    *)
(* beginning and settling of the provider calls, AuthSpec the auth and     *)
(* user handlers with two requests in flight and the session table in db.  *)
(***************************************************************************)
EXTENDS Integers, Sequences, FiniteSets, TLC

VARIABLES ver, handler, pc, req, loc, calls, sent, db

vars == <<ver, handler, pc, req, loc, calls, sent, db>>

(***************************************************************************)
(* Bounds of the model.                                                    *)
(***************************************************************************)
MaxSerpItems == 3   \* SERP answers hold 1..MaxSerpItems items, or TOP_N + 1
MaxBatch == 2       \* entries of a site-metrics batch
MaxEntries == 2     \* keyword entries of a keyword-metrics answer
MaxCompetitors == 2     \* competitors of the short lists rated on their own

(***************************************************************************)
(* JavaScript values: null, undefined, numbers.                            *)
(***************************************************************************)
JNull == [kind |-> "null"]
JUndef == [kind |-> "undefined"]
JNum(n) == [kind |-> "num", val |-> n]
JArr(items) == [kind |-> "array", items |-> items]
EmptyObj == [kind |-> "obj"]

\* JavaScript truthiness of a null / undefined / number value
Truthy(v) == v.kind = "num" /\ v.val # 0

\* a || b
JsOr(a, b) == IF Truthy(a) THEN a ELSE b

\* (v || 0) for a value that is a number, null or undefined
NumOr0(v) == IF Truthy(v) THEN v.val ELSE 0

Min(a, b) == IF a < b THEN a ELSE b
Max(a, b) == IF a > b THEN a ELSE b

\* Array.prototype.slice(0, n)
Slice(s, n) == SubSeq(s, 1, Min(n, Len(s)))

(***************************************************************************)
(* Fixed-point arithmetic standing for the doubles of the scoring          *)
(* functions: a real x is the integer x * FX.                              *)
(***************************************************************************)
FX == 10^6
FXK == 10^3          \* FX = FXK * FXK
ExpTerms == 30       \* terms of the exponential series

Fx(n) == n * FX

\* a * b on fixed-point numbers (|a|, |b| < 1000.0)
Mul(a, b) ==
  LET ah == a \div FXK
      al == a % FXK
      bh == b \div FXK
      bl == b % FXK
  IN ah * bh + (ah * bl + al * bh) \div FXK + (al * bl) \div FX

\* the first n decimal digits of r / b, for 0 <= r < b
RECURSIVE DivDigits(_, _, _)
DivDigits(r, b, n) ==
  IF n = 0 THEN 0
  ELSE ((r * 10) \div b) * 10^(n - 1) + DivDigits((r * 10) % b, b, n - 1)

\* a / b on fixed-point numbers (b > 0); a divisor of ten digits is shortened by
\* one digit, with the dividend, to keep the long division within the integers
RECURSIVE Div(_, _)
Div(a, b) ==
  IF b >= 2 * 10^8 THEN Div(a \div 10, b \div 10)
  ELSE (a \div b) * FX + DivDigits(a % b, b, 6)

\* the terms z^k / k, k odd, k <= 13, of the atanh series, from zk = z^k on
RECURSIVE AtanhSeries(_, _, _)
AtanhSeries(zk, z2, k) ==
  IF k > 13 THEN 0
  ELSE (2 * zk) \div k + AtanhSeries(Mul(zk, z2), z2, k + 2)

\* 2 * atanh(z)
TwoAtanh(z) == AtanhSeries(z, Mul(z, z), 1)

\* Math.log of a fixed-point y with 1 <= y <= 2, by the atanh series
LnSeries(y) == TwoAtanh(Div(y - FX, y + FX))

\* Math.LN2
LN2 == LnSeries(2 * FX)

\* Math.log of a fixed-point y > 0
RECURSIVE Ln(_)
Ln(y) ==
  IF y >= 2 * FX THEN LN2 + Ln(y \div 2)
  ELSE IF y < FX THEN Ln(2 * y) - LN2
  ELSE LnSeries(y)

\* Math.log1p
Log1p(x) == Ln(FX + x)

RECURSIVE ExpSeries(_, _, _)
ExpSeries(x, term, n) ==
  IF n > ExpTerms \/ term = 0 THEN 0
  ELSE term + ExpSeries(x, Mul(term, x) \div n, n + 1)

\* Math.exp
RECURSIVE Exp(_)
Exp(x) ==
  IF x > FX \/ x < -FX
    THEN LET h == Exp(x \div 2) IN Mul(h, h)
    ELSE ExpSeries(x, FX, 1)

\* Math.pow(x, p) for x >= 0, p > 0
Pow(x, p) == IF x = 0 THEN 0 ELSE Exp(Mul(p, Ln(x)))

\* Math.round: to the nearest integer, halves up
Round(x) == (x + FX \div 2) \div FX

\* the rounding without the clamp to [0, 100]
Clamp100_NoClamp(x) == Round(x)

\* Math.max(0, Math.min(100, Math.round(x)))
Clamp100(x) == Max(0, Min(100, Round(x)))

(***************************************************************************)
(* Vendor site-metrics records (the fields the controller reads).          *)
(* link_propensity is a fixed-point number, the others are integers.       *)
(***************************************************************************)
ZeroMetrics ==
  [kind |-> "obj", root_domain |-> "", domain_authority |-> 0,
   page_authority |-> 0, spam_score |-> 0, link_propensity |-> 0,
   external_pages_to_page |-> 0, root_domains_to_page |-> 0,
   indirect_root_domains_to_page |-> 0, root_domains_to_root_domain |-> 0,
   external_pages_to_root_domain |-> 0,
   indirect_root_domains_to_root_domain |-> 0, pages_to_root_domain |-> 0]

StrongMetrics ==
  [kind |-> "obj", root_domain |-> "strong.example", domain_authority |-> 60,
   page_authority |-> 50, spam_score |-> 3, link_propensity |-> FX \div 20,
   external_pages_to_page |-> 200, root_domains_to_page |-> 40,
   indirect_root_domains_to_page |-> 10, root_domains_to_root_domain |-> 900,
   external_pages_to_root_domain |-> 950,
   indirect_root_domains_to_root_domain |-> 25, pages_to_root_domain |-> 700]

\* what results_by_site[i]?.site_metrics can be
MetricsChoices == {JUndef, ZeroMetrics, StrongMetrics}

(***************************************************************************)
(* Scoring functions.                                                      *)
(***************************************************************************)
\* seo.controller.ts calculateCF
calculateCF_v1(metrics) ==
  IF metrics.kind # "obj" THEN 0
  ELSE
    LET CF_BASE == 14 * FX
        CF_LOG_WEIGHT == 5 * FX
        CF_RD_WEIGHT == (8 * FX) \div 10
        CF_DEPTH_BOOST == (32 * FX) \div 100
        externalPages == Max(metrics.external_pages_to_page, 1)
        referringDomains == Max(metrics.root_domains_to_page, 1)
        indirectRefDomains == metrics.indirect_root_domains_to_page
        linkPropensity == Min(FX, metrics.link_propensity)
        rawVolume == externalPages * linkPropensity
        depthMultiplier == FX + Mul(CF_DEPTH_BOOST, Log1p(Fx(indirectRefDomains)))
        logVolume == Mul(Log1p(rawVolume), depthMultiplier)
        logVolumeCompressed == Log1p(logVolume)
        cf == CF_BASE + Mul(CF_LOG_WEIGHT, logVolumeCompressed)
                + Mul(CF_RD_WEIGHT, Log1p(Fx(referringDomains)))
    IN Clamp100(cf)

\* part_011 calculateCF
calculateCF_v2(metrics) ==
  IF metrics.kind # "obj" THEN 0
  ELSE
    LET CF_BASE == 10 * FX
        CF_LOG_WEIGHT == 45 * FX
        CF_INDIRECT_BOOST == (25 * FX) \div 100
        CF_VOLUME_WEIGHT == (2 * FX) \div 10
        rootDomains == Max(metrics.root_domains_to_root_domain, 1)
        externalPages == Max(metrics.external_pages_to_root_domain, 1)
        indirectDomains == Max(metrics.indirect_root_domains_to_root_domain, 0)
        rootDomainsLog == Log1p(Fx(rootDomains))
        externalPagesLog == Mul(Log1p(Fx(externalPages)), CF_VOLUME_WEIGHT)
        indirectBoost == Mul(Log1p(Fx(indirectDomains)), CF_INDIRECT_BOOST)
        cfRaw == CF_BASE
                   + Mul(CF_LOG_WEIGHT, Log1p(rootDomainsLog + externalPagesLog + indirectBoost))
    IN Clamp100(cfRaw)

calculateCF(metrics) ==
  IF ver = "v1" THEN calculateCF_v1(metrics) ELSE calculateCF_v2(metrics)

\* seo.controller.ts calculateTF
calculateTF_v1(metrics) ==
  IF metrics.kind # "obj" THEN 0
  ELSE
    LET TF_BASE == (85 * FX) \div 10
        TF_LOG_SCALING == (65 * FX) \div 10
        TF_LOG_WEIGHT == (578 * FX) \div 100
        TF_PA_WEIGHT == (65 * FX) \div 1000
        TF_SPAM_PENALTY_WEIGHT == (95 * FX) \div 100
        TF_SPAM_EXP == (135 * FX) \div 100
        pageAuthority == metrics.page_authority
        spamScore == Fx(metrics.spam_score) \div 100
        trustSeed == pageAuthority * TF_PA_WEIGHT
        spamPenalty == FX - Mul(TF_SPAM_PENALTY_WEIGHT, Pow(spamScore, TF_SPAM_EXP))
        tfRaw == TF_BASE + Mul(TF_LOG_WEIGHT, Log1p(Mul(trustSeed, TF_LOG_SCALING)))
        tf == Mul(tfRaw, spamPenalty)
    IN Clamp100(tf)

\* part_011 calculateTF
calculateTF_v2(metrics) ==
  IF metrics.kind # "obj" THEN 0
  ELSE
    LET TF_BASE == (85 * FX) \div 10
        TF_LOG_WEIGHT == (578 * FX) \div 100
        TF_LOG_SCALING == (65 * FX) \div 10
        TF_PA_WEIGHT == (6 * FX) \div 10
        TF_DA_WEIGHT == (4 * FX) \div 10
        TF_INDIRECT_BOOST == (2 * FX) \div 10
        TF_SPAM_EXP == (13 * FX) \div 10
        pageAuthority == metrics.page_authority
        domainAuthority == metrics.domain_authority
        rootDomains == Max(metrics.root_domains_to_root_domain, 1)
        indirectDomains == Max(metrics.indirect_root_domains_to_root_domain, 0)
        spamScore == metrics.spam_score
        trustSeed == pageAuthority * TF_PA_WEIGHT + domainAuthority * TF_DA_WEIGHT
        rootDomainFactor == Log1p(Fx(rootDomains))
        indirectBoost == Mul(Log1p(Fx(indirectDomains)), TF_INDIRECT_BOOST)
        spamPenalty == Div(FX, FX + Pow(Fx(spamScore), TF_SPAM_EXP))
        tfRaw == TF_BASE
                   + Mul(TF_LOG_WEIGHT,
                         Log1p(Mul(trustSeed, TF_LOG_SCALING) + rootDomainFactor + indirectBoost))
    IN Clamp100(Mul(tfRaw, spamPenalty))

calculateTF(metrics) ==
  IF ver = "v1" THEN calculateTF_v1(metrics) ELSE calculateTF_v2(metrics)

\* a reduce that subtracts each score where the code adds it
RECURSIVE SumSeq_Subtracting(_)
SumSeq_Subtracting(s) == IF s = <<>> THEN 0 ELSE SumSeq_Subtracting(Tail(s)) - Head(s)

RECURSIVE SumSeq(_)
SumSeq(s) == IF s = <<>> THEN 0 ELSE Head(s) + SumSeq(Tail(s))

RECURSIVE MaxRootDomains(_)
MaxRootDomains(cs) ==
  IF Len(cs) = 1 THEN Head(cs).rootDomains
  ELSE Max(Head(cs).rootDomains, MaxRootDomains(Tail(cs)))

\* the competitors calculateKeywordDifficulty averages over
TOP_N == 10

\* seo.controller.ts calculateKeywordDifficulty
calculateKeywordDifficulty_v1(competitors) ==
  IF Len(competitors) = 0 THEN 0
  ELSE
    LET w_tf == (3 * FX) \div 10
        w_da == (25 * FX) \div 100
        w_cf == (2 * FX) \div 10
        w_pa == (15 * FX) \div 100
        w_rd_factor == FX \div 10
        top == Slice(competitors, TOP_N)
        score(comp) ==
          LET rdFactor == Min(50 * FX, Log1p(Fx(comp.rootDomains)) * 3)
          IN Mul(Fx(comp.cf), w_tf) + Mul(Fx(comp.domainAuthority), w_da)
               + Mul(Fx(comp.cf), w_cf) + Mul(Fx(comp.pageAuthority), w_pa)
               + Mul(rdFactor, w_rd_factor)
        scores == [i \in 1..Len(top) |-> score(top[i])]
        avgStrength == SumSeq(scores) \div Len(scores)
    IN Clamp100(Mul(avgStrength, (155 * FX) \div 100) - 5 * FX)

\* part_011 calculateKeywordDifficulty
calculateKeywordDifficulty_v2(competitors) ==
  IF Len(competitors) = 0 THEN 0
  ELSE
    LET w_tf == (3 * FX) \div 10
        w_da == (25 * FX) \div 100
        w_cf == (2 * FX) \div 10
        w_pa == (15 * FX) \div 100
        w_rd_factor == FX \div 10
        maxRD == MaxRootDomains(competitors)
        top == Slice(competitors, TOP_N)
        score(comp) ==
          LET rdFactor == IF maxRD > 0
                            THEN Div(Log1p(Fx(comp.rootDomains)), Log1p(Fx(maxRD))) * 50
                            ELSE 0
          IN Mul(Fx(comp.tf), w_tf) + Mul(Fx(comp.domainAuthority), w_da)
               + Mul(Fx(comp.cf), w_cf) + Mul(Fx(comp.pageAuthority), w_pa)
               + Mul(rdFactor, w_rd_factor)
        scores == [i \in 1..Len(top) |-> score(top[i])]
        avgStrength == SumSeq(scores) \div Len(scores)
        sigmoid == Div(100 * FX, FX + Exp(-Mul(avgStrength - 50 * FX, (5 * FX) \div 100)))
    IN Clamp100(sigmoid)

calculateKeywordDifficulty(competitors) ==
  IF ver = "v1" THEN calculateKeywordDifficulty_v1(competitors)
  ELSE calculateKeywordDifficulty_v2(competitors)

(***************************************************************************)
(* Responses.                                                              *)
(***************************************************************************)
\* sendError without res.status(...): the envelope goes out with the default status
sendError_NoStatus(code, message) ==
  Append(sent, [status |-> 200, success |-> FALSE, message |-> message, data |-> JNull])

\* utils/response sendError: res.status(code || 500).json({success: false, data: null, message})
sendError(code, message) ==
  Append(sent, [status |-> IF code = 0 THEN 500 ELSE code,
                success |-> FALSE, message |-> message, data |-> JNull])

\* utils/response sendSuccessUnencrypted: HTTP 200, {success: true, message, data}
sendSuccessUnencrypted(data, message) ==
  Append(sent, [status |-> 200, success |-> TRUE, message |-> message, data |-> data])

\* the message of an Error thrown by a provider client (axios failure, vendor error)
ProviderError == "provider error"

\* the message of a TypeError raised by the handler's own code
TypeError == "TypeError"

NoReq == [none |-> TRUE]
NoLoc == [none |-> TRUE]

\* the controllers of the SEO routes keep nothing in the database
NoDb == [none |-> TRUE]

\* a provider call of the current request and whether it resolved or rejected
Call(op, arg, ok) == [op |-> op, arg |-> arg, ok |-> ok]

(***************************************************************************)
(* getSerpCompetitors                                                      *)
(***************************************************************************)
\* the required fields, each present or missing ("" / 0), at most one missing;
\* the optional fields present or missing
SerpBodies ==
  {b \in [keyword : {"", "kw"}, locationCodeGoogle : {0, 2250}, languageCode : {"", "fr"},
          countryIsoCode : {"", "FR"}, fallbackLocale : {"", "en-US"}] :
     Cardinality({f \in {"keyword", "languageCode"} : b[f] = ""})
       + (IF b.locationCodeGoogle = 0 THEN 1 ELSE 0) <= 1}

\* !keyword || !locationCodeGoogle || !languageCode
SerpMissingFields(body) ==
  body.keyword = "" \/ body.locationCodeGoogle = 0 \/ body.languageCode = ""

\* v1 validates the body; in v2 the check is commented out
SerpRejects(body) == ver = "v1" /\ SerpMissingFields(body)

\* SERP item i of a vendor answer
SerpItem(i) == [url |-> i, title |-> i, description |-> i, rank_group |-> i, rank_absolute |-> i]

\* the vendor's SERP answers: where the path tasks[0].result[0].items ends, and the items
SerpAnswers ==
  [path : {"no_tasks", "no_result", "no_items"}, items : {<<>>}]
    \cup [path : {"items"},
          items : {[i \in 1..n |-> SerpItem(i)] : n \in (0..MaxSerpItems) \cup {TOP_N + 1}}]

\* the emptiness test without its items.length === 0 part
SerpEmpty_NoLengthCheck(answer) == answer.path # "items"

\* !serpResults?.tasks?.[0]?.result?.[0]?.items || items.length === 0
SerpEmpty(answer) == answer.path # "items" \/ Len(answer.items) = 0

\* `${languageCode}-${countryIsoCode || "US"}`
SerpLocale(body) ==
  <<body.languageCode, "-", IF body.countryIsoCode = "" THEN "US" ELSE body.countryIsoCode>>

\* kdResult?.result?.keyword_metrics?.difficulty of a vendor answer
KDValues == {JUndef, JNum(0), JNum(55)}

\* siteMetricsResults?.results_by_site, entry by entry (?.site_metrics)
Batches == UNION {[1..n -> MetricsChoices] : n \in 0..MaxBatch}

\* siteMetricsResults?.results_by_site?.[index]?.site_metrics
BatchEntry(batch, index) == IF index <= Len(batch) THEN batch[index] ELSE JUndef

\* one element of the competitors array
Competitor(item, metrics) ==
  LET has == metrics.kind = "obj"
  IN [url |-> item.url, title |-> item.title, description |-> item.description,
      rankGroup |-> item.rank_group, rankAbsolute |-> item.rank_absolute,
      domain |-> IF has THEN metrics.root_domain ELSE "",
      domainAuthority |-> IF has THEN metrics.domain_authority ELSE 0,
      pageAuthority |-> IF has THEN metrics.page_authority ELSE 0,
      rootDomains |-> IF has THEN metrics.root_domains_to_root_domain ELSE 0,
      spamScore |-> IF has THEN metrics.spam_score ELSE 0,
      cf |-> calculateCF(metrics),
      tf |-> calculateTF(metrics)]

\* serpItems.slice(0, 10).map((item, index) => ...)
Competitors(serpItems, batch) ==
  LET top == Slice(serpItems, TOP_N)
  IN [i \in 1..Len(top) |-> Competitor(top[i], BatchEntry(batch, i))]

\* keywordDifficulty: keywordDifficulty || calculatedKD
SerpKeywordDifficulty(keywordDifficulty, calculatedKD) ==
  JsOr(keywordDifficulty, JNum(calculatedKD))

SerpStart ==
  /\ handler = "idle"
  /\ \E body \in SerpBodies :
       /\ req' = body
       /\ IF SerpRejects(body)
            THEN /\ sent' = sendError(400, "Missing required fields: keyword, locationCodeGoogle, languageCode")
                 /\ pc' = "done"
            ELSE /\ sent' = sent
                 /\ pc' = "serp"
  /\ handler' = "getSerpCompetitors"
  /\ loc' = [serpResults |-> JNull, serpItems |-> <<>>, keywordDifficulty |-> JNull,
             batch |-> <<>>]
  /\ UNCHANGED <<ver, db, calls>>

\* 1. dataForSeoService.getGoogleSerp
SerpGetGoogleSerp ==
  /\ handler = "getSerpCompetitors" /\ pc = "serp"
  /\ \/ /\ calls' = Append(calls, Call("getGoogleSerp", req.keyword, FALSE))
        /\ sent' = sendError(500, ProviderError)
        /\ pc' = "done"
        /\ loc' = loc
     \/ \E answer \in SerpAnswers :
          /\ calls' = Append(calls, Call("getGoogleSerp", req.keyword, TRUE))
          /\ IF SerpEmpty(answer)
               THEN /\ sent' = sendError(404, "No SERP results found")
                    /\ pc' = "done"
                    /\ loc' = [loc EXCEPT !.serpResults = answer]
               ELSE /\ sent' = sent
                    /\ pc' = "kd"
                    /\ loc' = [loc EXCEPT !.serpResults = answer, !.serpItems = answer.items]
  /\ UNCHANGED <<ver, db, handler, req>>

\* the retry without its if (fallbackLocale) guard
SerpAfterKDFailure_AlwaysRetry(body) == "kd_fallback"

\* where the pipeline goes after the first difficulty lookup failed
SerpAfterKDFailure(body) == IF body.fallbackLocale # "" THEN "kd_fallback" ELSE "metrics"

\* 2. mozService.getKeywordDifficulty with the locale built from the body
SerpGetKeywordDifficulty ==
  /\ handler = "getSerpCompetitors" /\ pc = "kd"
  /\ \/ /\ calls' = Append(calls, Call("getKeywordDifficulty", SerpLocale(req), FALSE))
        /\ pc' = SerpAfterKDFailure(req)
        /\ loc' = loc
     \/ \E difficulty \in KDValues :
          /\ calls' = Append(calls, Call("getKeywordDifficulty", SerpLocale(req), TRUE))
          /\ loc' = [loc EXCEPT !.keywordDifficulty = difficulty]
          /\ pc' = "metrics"
  /\ UNCHANGED <<ver, db, handler, req, sent>>

\* 2b. the retry with fallbackLocale, inside the catch of the first lookup
SerpGetKeywordDifficultyFallback ==
  /\ handler = "getSerpCompetitors" /\ pc = "kd_fallback"
  /\ \/ /\ calls' = Append(calls, Call("getKeywordDifficulty", <<req.fallbackLocale>>, FALSE))
        /\ loc' = loc
     \/ \E difficulty \in KDValues :
          /\ calls' = Append(calls, Call("getKeywordDifficulty", <<req.fallbackLocale>>, TRUE))
          /\ loc' = [loc EXCEPT !.keywordDifficulty = difficulty]
  /\ pc' = "metrics"
  /\ UNCHANGED <<ver, db, handler, req, sent>>

\* the payload of the success response
SerpPayload(body, keywordDifficulty, serpItems, batch) ==
  LET competitors == Competitors(serpItems, batch)
      calculatedKD == calculateKeywordDifficulty(competitors)
  IN [kind |-> "serp", keyword |-> body.keyword,
      keywordDifficulty |-> SerpKeywordDifficulty(keywordDifficulty, calculatedKD),
      competitors |-> competitors,
      serpResults |-> serpItems]

\* 3.-5. mozService.getMultipleSiteMetrics, the competitors and the response
SerpGetMultipleSiteMetrics ==
  /\ handler = "getSerpCompetitors" /\ pc = "metrics"
  /\ LET siteQueries == [i \in 1..Len(Slice(loc.serpItems, TOP_N)) |-> loc.serpItems[i].url]
     IN \/ /\ calls' = Append(calls, Call("getMultipleSiteMetrics", siteQueries, FALSE))
           /\ sent' = sendError(500, ProviderError)
           /\ loc' = loc
        \/ \E batch \in Batches :
             /\ calls' = Append(calls, Call("getMultipleSiteMetrics", siteQueries, TRUE))
             /\ loc' = [loc EXCEPT !.batch = batch]
             /\ sent' = sendSuccessUnencrypted(
                          SerpPayload(req, loc.keywordDifficulty, loc.serpItems, batch),
                          "SERP competitors analysis completed")
  /\ pc' = "done"
  /\ UNCHANGED <<ver, db, handler, req>>

(***************************************************************************)
(* Strings are sequences of one-character strings.                         *)
(***************************************************************************)
StartsWith(s, p) == Len(s) >= Len(p) /\ SubSeq(s, 1, Len(p)) = p

Drop(s, n) == SubSeq(s, n + 1, Len(s))

\* .replace(/^https?:\/\//, "")
ReplaceScheme(s) ==
  IF StartsWith(s, <<"h", "t", "t", "p", ":", "/", "/">>) THEN Drop(s, 7)
  ELSE IF StartsWith(s, <<"h", "t", "t", "p", "s", ":", "/", "/">>) THEN Drop(s, 8)
  ELSE s

\* .replace(/^www\./, "")
ReplaceWww(s) == IF StartsWith(s, <<"w", "w", "w", ".">>) THEN Drop(s, 4) ELSE s

\* .replace(/\/+$/, "")
RECURSIVE ReplaceTrailingSlashes(_)
ReplaceTrailingSlashes(s) ==
  IF s # <<>> /\ s[Len(s)] = "/" THEN ReplaceTrailingSlashes(SubSeq(s, 1, Len(s) - 1)) ELSE s

RECURSIVE TrimStart(_)
TrimStart(s) == IF s # <<>> /\ Head(s) = " " THEN TrimStart(Tail(s)) ELSE s

RECURSIVE TrimEnd(_)
TrimEnd(s) == IF s # <<>> /\ s[Len(s)] = " " THEN TrimEnd(SubSeq(s, 1, Len(s) - 1)) ELSE s

\* String.prototype.trim
Trim(s) == TrimEnd(TrimStart(s))

\* formattedDomain
FormatDomain(domain) == Trim(ReplaceTrailingSlashes(ReplaceWww(ReplaceScheme(domain))))

\* `https://${formattedDomain}/`
HttpDomain(formattedDomain) == <<"h", "t", "t", "p", "s", ":", "/", "/">> \o formattedDomain \o <<"/">>

\* the domain strings of the requests; the empty string stands for a missing field
Domains ==
  { <<>>,
    <<"e", "x", "a", "m", "p", "l", "e", ".", "c", "o", "m">>,
    <<"h", "t", "t", "p", "s", ":", "/", "/", "w", "w", "w", ".", "E", "x", "a", "m", "p", "l", "e", ".", "c", "o", "m", "/">>,
    <<"h", "t", "t", "p", ":", "/", "/", "a", ".", "i", "o", "/", "/">>,
    <<"w", "w", "w", ".", "w", "w", "w", ".", "a", ".", "i", "o">>,
    <<" ", "w", "w", "w", ".", "a", ".", "i", "o">> }

(***************************************************************************)
(* History and summary normalizers.                                        *)
(***************************************************************************)
\* tasks[0].result[0] of a backlinks-summary answer
SummaryItems ==
  { [backlinks |-> 0, broken_backlinks |-> 0, referring_pages |-> 0,
     referring_domains |-> 0, referring_ips |-> 0, referring_subnets |-> 0, rank |-> 0],
    [backlinks |-> 40, broken_backlinks |-> 10, referring_pages |-> 20,
     referring_domains |-> 8, referring_ips |-> 5, referring_subnets |-> 4, rank |-> 33] }

\* what data?.tasks?.[0]?.result?.[0] of a backlinks-summary answer can be
SummaryAnswers == {JUndef} \cup {[kind |-> "obj", item |-> it] : it \in SummaryItems}

\* item.x || 0, and the x of `item.x ? ... : 0`: a missing field counts as 0
FieldOr0(item, name) == IF name \in DOMAIN item THEN item[name] ELSE 0

\* a ratio that divides by 1 where the denominator is 0
RatioOr0_NoGuard(num, den) == IF den # 0 THEN Div(num, den) ELSE Fx(num)

\* a ? b / a : 0   (fixed-point)
RatioOr0(num, den) == IF den # 0 THEN Div(num, den) ELSE 0

\* processBacklinksSummary; null stands for a rejected call
processBacklinksSummary(data) ==
  IF data.kind # "obj" THEN JNull
  ELSE LET item == data.item
       IN [kind |-> "obj",
           rank |-> FieldOr0(item, "rank"),
           referringIPs |-> FieldOr0(item, "referring_ips"),
           referringSubnets |-> FieldOr0(item, "referring_subnets"),
           referringDomains |-> FieldOr0(item, "referring_domains"),
           backlinks |-> FieldOr0(item, "backlinks"),
           referringPages |-> FieldOr0(item, "referring_pages"),
           activeLinksRatio |->
             RatioOr0(FieldOr0(item, "backlinks") - FieldOr0(item, "broken_backlinks"),
                      FieldOr0(item, "backlinks")),
           dofollowLinksRatio |->
             RatioOr0(item.referring_pages, FieldOr0(item, "backlinks")),
           avgLinksPerDomain |->
             RatioOr0(item.referring_pages, FieldOr0(item, "referring_domains")),
           avgLinksPerIP |->
             RatioOr0(item.referring_pages, FieldOr0(item, "referring_ips")),
           avgLinksPerSubnet |->
             RatioOr0(item.referring_pages, FieldOr0(item, "referring_subnets"))]

MonthNames ==
  <<"January", "February", "March", "April", "May", "June", "July", "August",
    "September", "October", "November", "December">>

\* the items of a backlinks-history answer; a date is its year and month
HistoryItem ==
  [date |-> [year |-> 2025, month |-> 3], rank |-> 12, backlinks |-> 40,
   new_backlinks |-> 3, lost_backlinks |-> 1]

\* what data?.tasks?.[0]?.result?.[0]?.items of a backlinks-history answer can be
HistoryAnswers == {JUndef, JArr(<<>>), JArr(<<HistoryItem>>)}

\* processBacklinksHistory; null stands for a rejected call
processBacklinksHistory(data) ==
  IF data.kind # "array" THEN JNull
  ELSE JArr([i \in 1..Len(data.items) |->
              LET item == data.items[i]
              IN [date |-> item.date,
                  month |-> item.date,
                  monthName |-> <<MonthNames[item.date.month], item.date.year>>,
                  rank |-> item.rank,
                  backlinks |-> item.backlinks,
                  newBacklinks |-> item.new_backlinks,
                  lostBacklinks |-> item.lost_backlinks]])

(***************************************************************************)
(* getDomainMetrics                                                        *)
(***************************************************************************)
\* what siteMetrics?.site_metrics can be
SiteMetricsAnswers == {JUndef, StrongMetrics}

\* what the distributions field read by the deployed revision can be
DistributionsAnswers == {JUndef, [kind |-> "obj", root_domains_to_page_by_spam_score |-> 1]}

\* what the linking_domains list read by the deployed revision can be
LinkingDomainsAnswers ==
  {JUndef, JArr(<<>>), JArr(<<[site_metrics |-> StrongMetrics], [site_metrics |-> JUndef]>>)}

\* what anchors?.tasks?.[0]?.result?.[0]?.items can be
AnchorsAnswers ==
  {JUndef, JArr(<<>>), JArr(<<[anchor |-> "home", referring_domains |-> 4, backlinks |-> 9]>>)}

\* x || {}
ObjOrEmpty(x) == IF x.kind = "obj" THEN x ELSE EmptyObj

\* topReferringDomains ... ?.map(...) || []
TopReferringDomainsOut(x) ==
  IF x.kind # "array" THEN JArr(<<>>)
  ELSE JArr([i \in 1..Len(x.items) |->
              LET m == x.items[i].site_metrics
                  has == m.kind = "obj"
              IN [domain |-> IF has THEN m.root_domain ELSE "",
                  da |-> IF has THEN m.domain_authority ELSE 0,
                  pa |-> IF has THEN m.page_authority ELSE 0,
                  links |-> IF has THEN m.pages_to_root_domain ELSE 0]])

\* anchors ... ?.map(...) || []
AnchorsOut(x) ==
  IF x.kind # "array" THEN JArr(<<>>)
  ELSE JArr([i \in 1..Len(x.items) |->
              [anchorText |-> x.items[i].anchor,
               referringDomains |-> x.items[i].referring_domains,
               total |-> x.items[i].backlinks]])

DomainMetricsPayload(l) ==
  [kind |-> "domainMetrics",
   domain |-> l.formattedDomain,
   siteMetrics |-> ObjOrEmpty(l.siteMetrics),
   distributions |-> ObjOrEmpty(l.distributions),
   topReferringDomains |-> TopReferringDomainsOut(l.topReferringDomains),
   backlinksSummary |-> processBacklinksSummary(l.backlinksSummary),
   backlinksHistory |-> processBacklinksHistory(l.backlinksHistory),
   anchors |-> AnchorsOut(l.anchors)]

DomainStart ==
  /\ handler = "idle"
  /\ \E domain \in Domains :
       /\ req' = [domain |-> domain]
       /\ IF domain = <<>>
            THEN /\ sent' = sendError(400, "Domain is required")
                 /\ pc' = "done"
            ELSE /\ sent' = sent
                 /\ pc' = "siteMetrics"
       /\ loc' = [formattedDomain |-> FormatDomain(domain),
                  siteMetrics |-> JNull, distributions |-> JNull,
                  topReferringDomains |-> JNull, backlinksSummary |-> JNull,
                  backlinksHistory |-> JNull, anchors |-> JNull]
  /\ handler' = "getDomainMetrics"
  /\ UNCHANGED <<ver, db, calls>>

\* a provider call outside any try block: a rejection reaches the handler's catch
RequiredCall(at, op, arg, answers, field, next) ==
  /\ handler = "getDomainMetrics" /\ pc = at
  /\ \/ /\ calls' = Append(calls, Call(op, arg, FALSE))
        /\ sent' = sendError(500, ProviderError)
        /\ pc' = "done"
        /\ loc' = loc
     \/ \E answer \in answers :
          /\ calls' = Append(calls, Call(op, arg, TRUE))
          /\ loc' = [loc EXCEPT ![field] = answer]
          /\ sent' = sent
          /\ pc' = next
  /\ UNCHANGED <<ver, db, handler, req>>

\* a provider call whose try/catch is missing
OptionalCall_NoCatch(at, op, arg, answers, field, next) ==
  RequiredCall(at, op, arg, answers, field, next)

\* a provider call in its own try/catch: a rejection is logged and the variable stays null
OptionalCall(at, op, arg, answers, field, next) ==
  /\ handler = "getDomainMetrics" /\ pc = at
  /\ \/ /\ calls' = Append(calls, Call(op, arg, FALSE))
        /\ loc' = loc
     \/ \E answer \in answers :
          /\ calls' = Append(calls, Call(op, arg, TRUE))
          /\ loc' = [loc EXCEPT ![field] = answer]
  /\ pc' = next
  /\ UNCHANGED <<ver, db, handler, req, sent>>

\* 1. mozService.getSiteMetrics
DomainGetSiteMetrics ==
  RequiredCall("siteMetrics", "getSiteMetrics", HttpDomain(loc.formattedDomain),
               SiteMetricsAnswers, "siteMetrics", "distributions")

\* 2. mozService.getSiteMetricsDistributions
DomainGetSiteMetricsDistributions ==
  RequiredCall("distributions", "getSiteMetricsDistributions", HttpDomain(loc.formattedDomain),
               DistributionsAnswers, "distributions", "topReferringDomains")

\* 3. mozService.getTopReferringDomains
DomainGetTopReferringDomains ==
  RequiredCall("topReferringDomains", "getTopReferringDomains", HttpDomain(loc.formattedDomain),
               LinkingDomainsAnswers, "topReferringDomains", "backlinksSummary")

\* 4. dataForSeoService.getBacklinksSummary
DomainGetBacklinksSummary ==
  OptionalCall("backlinksSummary", "getBacklinksSummary", loc.formattedDomain,
               SummaryAnswers, "backlinksSummary", "backlinksHistory")

\* 5. dataForSeoService.getBacklinksHistory
DomainGetBacklinksHistory ==
  OptionalCall("backlinksHistory", "getBacklinksHistory", loc.formattedDomain,
               HistoryAnswers, "backlinksHistory", "anchors")

\* 6. dataForSeoService.getAnchors, then the response
DomainGetAnchors ==
  /\ handler = "getDomainMetrics" /\ pc = "anchors"
  /\ \E outcome \in {JNull} \cup AnchorsAnswers :
       /\ calls' = Append(calls, Call("getAnchors", req.domain, outcome # JNull))
       /\ loc' = [loc EXCEPT !.anchors = outcome]
       /\ sent' = sendSuccessUnencrypted(DomainMetricsPayload(loc'),
                                         "Domain metrics retrieved successfully")
  /\ pc' = "done"
  /\ UNCHANGED <<ver, db, handler, req>>

(***************************************************************************)
(* getBacklinks                                                            *)
(***************************************************************************)
BacklinkItem ==
  [source_site_metrics |-> StrongMetrics, target_site_metrics |-> JUndef, anchor_text |-> "home"]

\* backlinksResult?.links and backlinksResult?.offset?.token ("" when absent)
BacklinksAnswers ==
  [links : {JUndef, JArr(<<>>), JArr(<<BacklinkItem>>)}, token : {"", "next"}]

BacklinksPayload(answer) ==
  LET backlinks == IF answer.links.kind = "array" THEN answer.links.items ELSE <<>>
      nextOffset == answer.token
  IN [kind |-> "backlinks",
      backlinks |-> JArr([i \in 1..Len(backlinks) |->
                           LET src == backlinks[i].source_site_metrics
                           IN [sourceDomain |-> IF src.kind = "obj" THEN src.root_domain ELSE "",
                               sourceDA |-> IF src.kind = "obj" THEN src.domain_authority ELSE 0,
                               sourcePA |-> IF src.kind = "obj" THEN src.page_authority ELSE 0,
                               anchorText |-> backlinks[i].anchor_text]]),
      nextOffset |-> nextOffset,
      hasMore |-> nextOffset # "",
      total |-> Len(backlinks)]

\* the whole handler: validation, mozService.getBacklinksList, the response
BacklinksStart ==
  /\ handler = "idle"
  /\ \E domain \in Domains :
       /\ req' = [domain |-> domain]
       /\ IF domain = <<>>
            THEN /\ sent' = sendError(400, "Domain is required")
                 /\ pc' = "done"
            ELSE /\ sent' = sent
                 /\ pc' = "backlinksList"
  /\ handler' = "getBacklinks"
  /\ loc' = NoLoc
  /\ UNCHANGED <<ver, db, calls>>

BacklinksGetBacklinksList ==
  /\ handler = "getBacklinks" /\ pc = "backlinksList"
  /\ \/ /\ calls' = Append(calls, Call("getBacklinksList", req.domain, FALSE))
        /\ sent' = sendError(500, ProviderError)
     \/ \E answer \in BacklinksAnswers :
          /\ calls' = Append(calls, Call("getBacklinksList", req.domain, TRUE))
          /\ sent' = sendSuccessUnencrypted(BacklinksPayload(answer),
                                            "Backlinks retrieved successfully")
  /\ pc' = "done"
  /\ UNCHANGED <<ver, db, handler, req, loc>>

(***************************************************************************)
(* getDomainMetricsAdvanced                                                *)
(***************************************************************************)
\* tasks[0].result[0].items and tasks[0].cost (0 when absent) of a vendor answer
AdvancedAnswers ==
  [items : {JUndef, JArr(<<>>), JArr(<<[url |-> "u", referring_domains |-> 5]>>)},
   cost : {0, 2}]

\* x?.map(...) || []  and  x?.length || 0  for x null or an array
MapOrEmpty(x) == IF x.kind = "array" THEN x.items ELSE <<>>

AdvancedPayload(l) ==
  [kind |-> "domainMetricsAdvanced",
   domain |-> l.formattedDomain,
   topContent |-> [items |-> MapOrEmpty(l.topContent),
                   totalCount |-> Len(MapOrEmpty(l.topContent)),
                   cost |-> l.topContentCost],
   competitors |-> [items |-> MapOrEmpty(l.competitors),
                    totalCount |-> Len(MapOrEmpty(l.competitors)),
                    cost |-> l.competitorsCost],
   totalCost |-> l.topContentCost + l.competitorsCost]

AdvancedStart ==
  /\ handler = "idle"
  /\ \E domain \in Domains :
       /\ req' = [domain |-> domain]
       /\ IF domain = <<>>
            THEN /\ sent' = sendError(400, "Domain is required")
                 /\ pc' = "done"
            ELSE /\ sent' = sent
                 /\ pc' = "topContent"
       /\ loc' = [formattedDomain |-> FormatDomain(domain),
                  topContent |-> JNull, topContentCost |-> 0,
                  competitors |-> JNull, competitorsCost |-> 0]
  /\ handler' = "getDomainMetricsAdvanced"
  /\ UNCHANGED <<ver, db, calls>>

\* items || []
ItemsOrEmpty(x) == IF x.kind = "array" THEN x ELSE JArr(<<>>)

\* the top-content call without its try/catch: a rejection reaches the outer catch
AdvancedGetDomainPagesSummary_NoCatch ==
  /\ handler = "getDomainMetricsAdvanced" /\ pc = "topContent"
  /\ \/ /\ calls' = Append(calls, Call("getDomainPagesSummary", loc.formattedDomain, FALSE))
        /\ loc' = loc
        /\ sent' = sendError(500, ProviderError)
        /\ pc' = "done"
     \/ \E answer \in AdvancedAnswers :
          /\ calls' = Append(calls, Call("getDomainPagesSummary", loc.formattedDomain, TRUE))
          /\ loc' = [loc EXCEPT !.topContent = ItemsOrEmpty(answer.items),
                                !.topContentCost = answer.cost]
          /\ sent' = sent
          /\ pc' = "competitors"
  /\ UNCHANGED <<ver, db, handler, req>>

\* 1. dataForSeoService.getDomainPagesSummary
AdvancedGetDomainPagesSummary ==
  /\ handler = "getDomainMetricsAdvanced" /\ pc = "topContent"
  /\ \/ /\ calls' = Append(calls, Call("getDomainPagesSummary", loc.formattedDomain, FALSE))
        /\ loc' = loc
     \/ \E answer \in AdvancedAnswers :
          /\ calls' = Append(calls, Call("getDomainPagesSummary", loc.formattedDomain, TRUE))
          /\ loc' = [loc EXCEPT !.topContent = ItemsOrEmpty(answer.items),
                                !.topContentCost = answer.cost]
  /\ pc' = "competitors"
  /\ UNCHANGED <<ver, db, handler, req, sent>>

\* 2. dataForSeoService.getCompetitors, then the response
AdvancedGetCompetitors ==
  /\ handler = "getDomainMetricsAdvanced" /\ pc = "competitors"
  /\ \/ /\ calls' = Append(calls, Call("getCompetitors", loc.formattedDomain, FALSE))
        /\ loc' = loc
     \/ \E answer \in AdvancedAnswers :
          /\ calls' = Append(calls, Call("getCompetitors", loc.formattedDomain, TRUE))
          /\ loc' = [loc EXCEPT !.competitors = ItemsOrEmpty(answer.items),
                                !.competitorsCost = answer.cost]
  /\ sent' = sendSuccessUnencrypted(AdvancedPayload(loc'),
                                    "Domain metrics advanced data retrieved successfully")
  /\ pc' = "done"
  /\ UNCHANGED <<ver, db, handler, req>>

(***************************************************************************)
(* Opportunity finder: findOpportunities, findOpportunitiesSV (v2),        *)
(* findOpportunitiesLab (v2).                                              *)
(***************************************************************************)
JStr(chars) == [kind |-> "str", chars |-> chars]

\* the required fields, each present or missing ("" / 0), at most one missing
OppBodies ==
  {b \in [niche : {"", "shoes"}, googleLanguageCode : {"", "en"},
          googleLocationCode : {0, 2840}, googleLanguageName : {"", "English"}] :
     Cardinality({f \in {"niche", "googleLanguageCode", "googleLanguageName"} : b[f] = ""})
       + (IF b.googleLocationCode = 0 THEN 1 ELSE 0) <= 1}

\* !niche || !googleLanguageCode || !googleLocationCode || !googleLanguageName
OppMissingFields(body) ==
  \/ body.niche = ""
  \/ body.googleLanguageCode = ""
  \/ body.googleLocationCode = 0
  \/ body.googleLanguageName = ""

\* v1 validates the body; in v2 the check is commented out
OppRejects(body) == ver = "v1" /\ OppMissingFields(body)

\* openAiResponse?.choices?.[0]?.message?.content
GeneratedTexts ==
  { JUndef,
    JStr(<<>>),
    JStr(<<"a", "b", ",", " ", "c">>),
    JStr(<<" ", ",", " ", ",">>),
    JStr(<<",", "x", ",", ",">>) }

\* String.prototype.split(",")
RECURSIVE SplitComma(_)
SplitComma(s) ==
  IF \E i \in 1..Len(s) : s[i] = ","
    THEN LET i == CHOOSE k \in 1..Len(s) : s[k] = "," /\ \A j \in 1..(k - 1) : s[j] # ","
         IN <<SubSeq(s, 1, i - 1)>> \o SplitComma(Drop(s, i))
    ELSE <<s>>

\* the segments trimmed but the empty ones kept
SplitKeywords_KeepEmpty(text) == [i \in 1..Len(SplitComma(text)) |-> Trim(SplitComma(text)[i])]

\* generatedKeywords.split(",").map((k) => k.trim()).filter((k) => k.length > 0)
SplitKeywords(text) ==
  LET parts == SplitComma(text)
      trimmed == [i \in 1..Len(parts) |-> Trim(parts[i])]
      nonEmpty(k) == Len(k) > 0
  IN SelectSeq(trimmed, nonEmpty)

Concept(type) == [concept_group |-> [kind |-> "obj", type |-> type]]
ConceptNoGroup == [concept_group |-> JUndef]

MonthlySearches ==
  JArr(<<[year |-> 2025, month |-> 2, search_volume |-> JNum(30)],
         [year |-> 2025, month |-> 1, search_volume |-> JUndef],
         [year |-> 2024, month |-> 13, search_volume |-> JNum(5)]>>)

\* the kinds of entries of task.result: annotations, search volume, monthly searches
EntryKinds ==
  { [keyword_annotations |-> JUndef, search_volume |-> JNum(30), monthly_searches |-> JUndef],
    [keyword_annotations |-> [kind |-> "obj", concepts |-> JUndef],
     search_volume |-> JNum(20), monthly_searches |-> JArr(<<>>)],
    [keyword_annotations |-> [kind |-> "obj", concepts |-> JArr(<<>>)],
     search_volume |-> JNum(20), monthly_searches |-> JUndef],
    [keyword_annotations |-> [kind |-> "obj", concepts |-> JArr(<<ConceptNoGroup, Concept("BRAND")>>)],
     search_volume |-> JNum(20), monthly_searches |-> MonthlySearches],
    [keyword_annotations |-> [kind |-> "obj", concepts |-> JArr(<<Concept("BRAND"), Concept("NON_BRAND")>>)],
     search_volume |-> JNum(10), monthly_searches |-> MonthlySearches],
    [keyword_annotations |-> [kind |-> "obj", concepts |-> JArr(<<Concept("NON_BRAND")>>)],
     search_volume |-> JUndef, monthly_searches |-> JUndef],
    [keyword_annotations |-> [kind |-> "obj", concepts |-> JArr(<<Concept("NON_BRAND")>>)],
     search_volume |-> JNum(20), monthly_searches |-> JArr(<<>>)] }

\* an entry of task.result; its keyword names the task and the position it came from
Entry(kind, task, index) ==
  [keyword |-> <<task, index>>, keyword_annotations |-> kind.keyword_annotations,
   search_volume |-> kind.search_volume, monthly_searches |-> kind.monthly_searches]

\* task.result of task number t with n entries
ResultsOfLen(t, n) ==
  {JArr([i \in 1..n |-> Entry(ks[i], t, i)]) : ks \in [1..n -> EntryKinds]}

\* task.result of task number t: null, or an array of at most n entries
TaskResults(t, n) == {JNull} \cup UNION {ResultsOfLen(t, k) : k \in 0..n}

ResultLen(r) == IF r.kind = "array" THEN Len(r.items) ELSE 0

\* the vendor limit of the keyword list
TOP_100 == 100

\* an answer with more qualifying entries than the handler keeps
BigResult ==
  JArr([i \in 1..(TOP_100 + 1) |->
         [keyword |-> <<1, i>>,
          keyword_annotations |-> [kind |-> "obj", concepts |-> JArr(<<Concept("NON_BRAND")>>)],
          search_volume |-> JNum(i % 3), monthly_searches |-> JUndef]])

\* keywordMetrics?.tasks: undefined, or one or two tasks holding at most MaxEntries
\* entries together (or one task with TOP_100 + 1 entries)
KeywordMetricsAnswers ==
  {JUndef, JArr(<<[result |-> BigResult]>>)}
    \cup {JArr(<<[result |-> r]>>) : r \in TaskResults(1, MaxEntries)}
    \cup UNION {{JArr(<<[result |-> r1], [result |-> r2]>>) :
                   r2 \in TaskResults(2, MaxEntries - ResultLen(r1))} :
                 r1 \in TaskResults(1, MaxEntries)}

\* for (const task of tasks) if (task.result && task.result.length > 0) allResults.push(...task.result)
RECURSIVE CollectResults(_)
CollectResults(tasks) ==
  IF tasks = <<>> THEN <<>>
  ELSE (IF Head(tasks).result.kind = "array" THEN Head(tasks).result.items ELSE <<>>)
         \o CollectResults(Tail(tasks))

\* the filter callback without the comparison with NON_BRAND
IsNonBrand_AnyConcept(result) ==
  LET annotations == result.keyword_annotations
  IN IF annotations.kind # "obj" THEN FALSE
     ELSE IF annotations.concepts.kind # "array" THEN FALSE
     ELSE IF Len(annotations.concepts.items) = 0 THEN FALSE
     ELSE \E i \in 1..Len(annotations.concepts.items) :
            annotations.concepts.items[i].concept_group.kind = "obj"

\* the filter callback keeping the entries that have no concepts to test
IsNonBrand_KeepUnannotated(result) ==
  LET annotations == result.keyword_annotations
  IN IF annotations.kind # "obj" THEN TRUE
     ELSE IF annotations.concepts.kind # "array" THEN TRUE
     ELSE IF Len(annotations.concepts.items) = 0 THEN TRUE
     ELSE \E i \in 1..Len(annotations.concepts.items) :
            LET g == annotations.concepts.items[i].concept_group
            IN g.kind = "obj" /\ g.type = "NON_BRAND"

\* the filter callback of findOpportunities
IsNonBrand(result) ==
  LET annotations == result.keyword_annotations
  IN IF annotations.kind # "obj" THEN FALSE
     ELSE IF annotations.concepts.kind # "array" THEN FALSE
     ELSE IF Len(annotations.concepts.items) = 0 THEN FALSE
     ELSE \E i \in 1..Len(annotations.concepts.items) :
            LET g == annotations.concepts.items[i].concept_group
            IN g.kind = "obj" /\ g.type = "NON_BRAND"

\* the elements of s with a volume in keys, larger volumes first, elements of equal
\* volume in their order in s
RECURSIVE ByVolumeDesc(_, _)
ByVolumeDesc(s, keys) ==
  IF keys = {} THEN <<>>
  ELSE LET m == CHOOSE k \in keys : \A other \in keys : other <= k
           hasVolume(e) == NumOr0(e.search_volume) = m
       IN SelectSeq(s, hasVolume) \o ByVolumeDesc(s, keys \ {m})

\* the list left in the order the vendor returned it
SortBySearchVolume_Unsorted(s) == s

\* Array.prototype.sort((a, b) => (b.search_volume || 0) - (a.search_volume || 0)),
\* which is a stable sort
SortBySearchVolume(s) ==
  ByVolumeDesc(s, {NumOr0(s[i].search_volume) : i \in 1..Len(s)})

MONTH_NAMES == <<"">> \o MonthNames

\* MONTH_NAMES[entry.month] || ""
MonthName(month) == IF month + 1 \in DOMAIN MONTH_NAMES THEN MONTH_NAMES[month + 1] ELSE ""

\* the map callback pushing a volume only for the months that have one
ProcessKeyword_SkipNoVolume(result) ==
  LET ms == IF result.monthly_searches.kind = "array" THEN result.monthly_searches.items ELSE <<>>
      hasVolume(e) == e.search_volume.kind = "num"
      withVolume == SelectSeq(ms, hasVolume)
  IN [keyword |-> result.keyword,
      searchVolume |-> NumOr0(result.search_volume),
      monthlySearches |-> ms,
      monthYears |-> [i \in 1..Len(ms) |-> <<MonthName(ms[i].month), ms[i].year>>],
      monthlySearchVolumes |-> [i \in 1..Len(withVolume) |-> withVolume[i].search_volume.val],
      keywordAnnotations |-> ObjOrEmpty(result.keyword_annotations)]

\* top100.map((result) => ...): the fields of a keyword record the properties read
ProcessKeyword(result) ==
  LET ms == IF result.monthly_searches.kind = "array" THEN result.monthly_searches.items ELSE <<>>
  IN [keyword |-> result.keyword,
      searchVolume |-> NumOr0(result.search_volume),
      monthlySearches |-> ms,
      monthYears |-> [i \in 1..Len(ms) |-> <<MonthName(ms[i].month), ms[i].year>>],
      monthlySearchVolumes |-> [i \in 1..Len(ms) |-> NumOr0(ms[i].search_volume)],
      keywordAnnotations |-> ObjOrEmpty(result.keyword_annotations)]

ProcessKeywords(top100) == [i \in 1..Len(top100) |-> ProcessKeyword(top100[i])]

\* steps 4 and 5 of findOpportunities
OppKeywords(tasks) ==
  LET allResults == IF tasks.kind = "array" THEN CollectResults(tasks.items) ELSE <<>>
      filteredResults == SelectSeq(allResults, IsNonBrand)
      top100 == Slice(SortBySearchVolume(filteredResults), TOP_100)
  IN ProcessKeywords(top100)

OppPayload(generatedKeywords, processedKeywords) ==
  [kind |-> "opportunities",
   generatedKeywords |-> generatedKeywords,
   keywords |-> processedKeywords,
   totalKeywords |-> Len(processedKeywords)]

OppHandlers == {"findOpportunities", "findOpportunitiesSV"}

\* validation (v1 only); findOpportunitiesSV exists in v2 only
OppStart ==
  /\ handler = "idle"
  /\ \E h \in OppHandlers, body \in OppBodies :
       /\ h = "findOpportunitiesSV" => ver = "v2"
       /\ handler' = h
       /\ req' = body
       /\ IF OppRejects(body)
            THEN /\ sent' = sendError(400, "Missing required fields: niche, googleLanguageCode, googleLocationCode, googleLanguageName")
                 /\ pc' = "done"
            ELSE /\ sent' = sent
                 /\ pc' = "generate"
  /\ loc' = [content |-> JNull, generatedKeywords |-> <<>>, keywords |-> <<>>]
  /\ UNCHANGED <<ver, db, calls>>

\* the generated text used without the two tests on it
OppGeneratedFailure_NoGuards(generatedKeywords, keywords) == ""

\* if (!generatedKeywords) ... if (keywords.length === 0) ...: the message of the
\* failure, "" when the handler goes on
OppGeneratedFailure(generatedKeywords, keywords) ==
  IF generatedKeywords = <<>> THEN "No keywords generated"
  ELSE IF Len(keywords) = 0 THEN "No valid keywords found"
  ELSE ""

\* 1. openAiService.generateKeywords, 2. split and format keywords
OppGenerateKeywords ==
  /\ handler \in OppHandlers /\ pc = "generate"
  /\ \/ /\ calls' = Append(calls, Call("generateKeywords", req.niche, FALSE))
        /\ sent' = sendError(500, "Failed to generate keywords")
        /\ pc' = "done"
        /\ loc' = loc
     \/ \E content \in GeneratedTexts :
          LET generatedKeywords == IF content.kind = "str" THEN content.chars ELSE <<>>
              keywords == SplitKeywords(generatedKeywords)
              failure == OppGeneratedFailure(generatedKeywords, keywords)
          IN /\ calls' = Append(calls, Call("generateKeywords", req.niche, TRUE))
             /\ loc' = [content |-> content, generatedKeywords |-> generatedKeywords,
                        keywords |-> keywords]
             /\ IF failure # ""
                  THEN sent' = sendError(500, failure) /\ pc' = "done"
                  ELSE sent' = sent /\ pc' = "metrics"
  /\ UNCHANGED <<ver, db, handler, req>>

\* 3. dataForSeoService.getKeywordsForKeywords, 4. filter and sort, 5. the response
OppGetKeywordsForKeywords ==
  /\ handler = "findOpportunities" /\ pc = "metrics"
  /\ \/ /\ calls' = Append(calls, Call("getKeywordsForKeywords", loc.keywords, FALSE))
        /\ sent' = sendError(500, "Failed to get keyword metrics")
        /\ loc' = loc
     \/ \E tasks \in KeywordMetricsAnswers :
          /\ calls' = Append(calls, Call("getKeywordsForKeywords", loc.keywords, TRUE))
          /\ loc' = [content |-> loc.content, generatedKeywords |-> loc.generatedKeywords,
                     keywords |-> loc.keywords, tasks |-> tasks]
          /\ sent' = sendSuccessUnencrypted(
                       OppPayload(loc.generatedKeywords, OppKeywords(tasks)),
                       "Opportunities found successfully")
  /\ pc' = "done"
  /\ UNCHANGED <<ver, db, handler, req>>

\* allResults = keywordMetrics?.tasks?.[0]?.result
SVAllResults(tasks) ==
  IF tasks.kind = "array" /\ Len(tasks.items) > 0 THEN tasks.items[1].result ELSE JUndef

\* allResults.sort(...) on undefined or null throws a TypeError
SVThrows(tasks) == SVAllResults(tasks).kind # "array"

\* steps 4 and 5 of findOpportunitiesSV
SVKeywords(tasks) ==
  ProcessKeywords(Slice(SortBySearchVolume(SVAllResults(tasks).items), TOP_100))

\* 3. dataForSeoService.getSearchVolumeForKeywords, 4. sort, 5. the response
SVGetSearchVolumeForKeywords ==
  /\ handler = "findOpportunitiesSV" /\ pc = "metrics"
  /\ \/ /\ calls' = Append(calls, Call("getSearchVolumeForKeywords", loc.keywords, FALSE))
        /\ sent' = sendError(500, "Failed to get keyword metrics")
        /\ loc' = loc
     \/ \E tasks \in KeywordMetricsAnswers :
          /\ calls' = Append(calls, Call("getSearchVolumeForKeywords", loc.keywords, TRUE))
          /\ loc' = [content |-> loc.content, generatedKeywords |-> loc.generatedKeywords,
                     keywords |-> loc.keywords, tasks |-> tasks]
          /\ sent' = IF SVThrows(tasks)
                       THEN sendError(500, TypeError)
                       ELSE sendSuccessUnencrypted(
                              OppPayload(loc.generatedKeywords, SVKeywords(tasks)),
                              "Opportunities found successfully")
  /\ pc' = "done"
  /\ UNCHANGED <<ver, db, handler, req>>

\* the kinds of items of a keyword-suggestions answer: keyword_info null or present
LabItemKinds ==
  { [keyword_info |-> JNull],
    [keyword_info |-> [kind |-> "obj", search_volume |-> JNum(20), monthly_searches |-> MonthlySearches]],
    [keyword_info |-> [kind |-> "obj", search_volume |-> JUndef, monthly_searches |-> JUndef]] }

\* suggestionsResponse.tasks?.[0]?.result?.[0]?.items
LabAnswers ==
  {JUndef} \cup
  UNION {{JArr([i \in 1..n |-> [keyword |-> <<1, i>>, keyword_info |-> ks[i].keyword_info]]) :
            ks \in [1..n -> LabItemKinds]} : n \in 0..MaxEntries}

LabHasInfo(item) == item.keyword_info.kind = "obj"

\* the sort key and the record fields of findOpportunitiesLab read keyword_info
LabFlatten(item) ==
  [keyword |-> item.keyword, keyword_annotations |-> JUndef,
   search_volume |-> item.keyword_info.search_volume,
   monthly_searches |-> item.keyword_info.monthly_searches]

\* `${MONTH_NAMES[entry.month]} ${entry.year}`: a month without a name reads "undefined"
LabMonthYear(entry) ==
  <<IF entry.month + 1 \in DOMAIN MONTH_NAMES THEN MONTH_NAMES[entry.month + 1] ELSE "undefined",
    entry.year>>

\* top100.map((item) => ...) of findOpportunitiesLab
LabProcessKeyword(result) ==
  [ProcessKeyword(result) EXCEPT
     !.monthYears = [i \in 1..Len(@) |-> LabMonthYear(result.monthly_searches.items[i])]]

LabKeywords(answer) ==
  LET allResults == IF answer.kind = "array" THEN answer.items ELSE <<>>
      validResults == SelectSeq(allResults, LabHasInfo)
      flat == [i \in 1..Len(validResults) |-> LabFlatten(validResults[i])]
      top100 == Slice(SortBySearchVolume(flat), TOP_100)
  IN [i \in 1..Len(top100) |-> LabProcessKeyword(top100[i])]

\* findOpportunitiesLab exists in v2 only
LabStart ==
  /\ handler = "idle" /\ ver = "v2"
  /\ \E body \in OppBodies :
       /\ req' = body
       /\ IF body.niche = ""
            THEN /\ sent' = sendError(400, "Missing required fields: keyword")
                 /\ pc' = "done"
            ELSE /\ sent' = sent
                 /\ pc' = "suggestions"
  /\ handler' = "findOpportunitiesLab"
  /\ loc' = NoLoc
  /\ UNCHANGED <<ver, db, calls>>

\* 1. dataForSeoService.getKeywordSuggestions, 2.-4. filter, sort, the response
LabGetKeywordSuggestions ==
  /\ handler = "findOpportunitiesLab" /\ pc = "suggestions"
  /\ \/ /\ calls' = Append(calls, Call("getKeywordSuggestions", req.niche, FALSE))
        /\ sent' = sendError(500, "Failed to get keyword suggestions")
        /\ loc' = loc
     \/ \E answer \in LabAnswers :
          /\ calls' = Append(calls, Call("getKeywordSuggestions", req.niche, TRUE))
          /\ loc' = [answer |-> answer]
          /\ sent' = IF Len(LabKeywords(answer)) = 0
                       THEN sendError(404, "No keyword opportunities found")
                       ELSE sendSuccessUnencrypted(
                              [kind |-> "lab", seedKeyword |-> req.niche,
                               keywords |-> LabKeywords(answer),
                               totalKeywords |-> Len(LabKeywords(answer))],
                              "Keyword opportunities found successfully")
  /\ pc' = "done"
  /\ UNCHANGED <<ver, db, handler, req>>

(***************************************************************************)
(* The server.                                                             *)
(***************************************************************************)
\* the handler has returned; the server takes the next request
Finish ==
  /\ pc = "done"
  /\ handler' = "idle" /\ pc' = "idle"
  /\ req' = NoReq /\ loc' = NoLoc /\ calls' = <<>> /\ sent' = <<>>
  /\ UNCHANGED <<ver, db>>

Init ==
  /\ ver \in {"v1", "v2"}
  /\ handler = "idle" /\ pc = "idle"
  /\ req = NoReq /\ loc = NoLoc /\ calls = <<>> /\ sent = <<>>
  /\ db = NoDb

Next ==
  \/ SerpStart
  \/ SerpGetGoogleSerp
  \/ SerpGetKeywordDifficulty
  \/ SerpGetKeywordDifficultyFallback
  \/ SerpGetMultipleSiteMetrics
  \/ DomainStart
  \/ DomainGetSiteMetrics
  \/ DomainGetSiteMetricsDistributions
  \/ DomainGetTopReferringDomains
  \/ DomainGetBacklinksSummary
  \/ DomainGetBacklinksHistory
  \/ DomainGetAnchors
  \/ BacklinksStart
  \/ BacklinksGetBacklinksList
  \/ AdvancedStart
  \/ AdvancedGetDomainPagesSummary
  \/ AdvancedGetCompetitors
  \/ OppStart
  \/ OppGenerateKeywords
  \/ OppGetKeywordsForKeywords
  \/ SVGetSearchVolumeForKeywords
  \/ LabStart
  \/ LabGetKeywordSuggestions
  \/ Finish

Spec == Init /\ [][Next]_vars

(***************************************************************************)
(* The scoring functions on their own: a site-metrics record, or a list of *)
(* competitors, is drawn and scored.                                       *)
(***************************************************************************)
\* a site-metrics record with the given link count, indirect count, authority, spam
\* score and link propensity
MetricsOf(links, indirect, authority, spam, propensity) ==
  [kind |-> "obj", root_domain |-> "site.example", domain_authority |-> authority,
   page_authority |-> authority, spam_score |-> spam, link_propensity |-> propensity,
   external_pages_to_page |-> links, root_domains_to_page |-> links,
   indirect_root_domains_to_page |-> indirect, root_domains_to_root_domain |-> links,
   external_pages_to_root_domain |-> links,
   indirect_root_domains_to_root_domain |-> indirect, pages_to_root_domain |-> links]

\* the records scored: link counts, indirect counts, authorities (0..100), spam
\* scores and link propensities (fixed-point) below, at and above their usual ranges
ScoreInputs ==
  {MetricsOf(l, i, a, s, p) : l \in {0, 1, 40, 2000}, i \in {0, 25}, a \in {0, 1, 50, 100},
                              s \in {0, 1, 17, 200}, p \in {0, FX \div 20, 2 * FX}}

\* calculateCF(metrics) and calculateTF(metrics) of a drawn record
ScoreSiteMetrics ==
  /\ handler = "score" /\ pc = "idle"
  /\ \E metrics \in ScoreInputs :
       /\ req' = metrics
       /\ loc' = [cf |-> calculateCF(metrics), tf |-> calculateTF(metrics)]
  /\ pc' = "scored"
  /\ UNCHANGED <<ver, db, handler, calls, sent>>

\* the competitors rated: without links, trusted only, popular only, middling, strong
CompetitorKinds ==
  { [tf |-> 0, cf |-> 0, domainAuthority |-> 0, pageAuthority |-> 0, rootDomains |-> 0],
    [tf |-> 100, cf |-> 0, domainAuthority |-> 0, pageAuthority |-> 0, rootDomains |-> 0],
    [tf |-> 0, cf |-> 100, domainAuthority |-> 0, pageAuthority |-> 0, rootDomains |-> 0],
    [tf |-> 40, cf |-> 50, domainAuthority |-> 45, pageAuthority |-> 35, rootDomains |-> 40],
    [tf |-> 60, cf |-> 50, domainAuthority |-> 45, pageAuthority |-> 50, rootDomains |-> 40],
    [tf |-> 100, cf |-> 100, domainAuthority |-> 100, pageAuthority |-> 100, rootDomains |-> 40],
    [tf |-> 100, cf |-> 100, domainAuthority |-> 100, pageAuthority |-> 100, rootDomains |-> 900] }

\* the lists rated: every list of at most MaxCompetitors competitors, and the lists
\* of TOP_N and TOP_N + 1 competitors that are all alike but for the last one
CompetitorLists ==
  UNION {[1..n -> CompetitorKinds] : n \in 1..MaxCompetitors}
    \cup {[i \in 1..n |-> IF i < n THEN k1 ELSE k2] :
            k1 \in CompetitorKinds, k2 \in CompetitorKinds, n \in {TOP_N, TOP_N + 1}}

\* second has the length and the rootDomains of first, and at least its scores
Dominates(second, first) ==
  /\ Len(second) = Len(first)
  /\ \A i \in 1..Len(first) :
       /\ second[i].rootDomains = first[i].rootDomains
       /\ second[i].tf >= first[i].tf
       /\ second[i].cf >= first[i].cf
       /\ second[i].domainAuthority >= first[i].domainAuthority
       /\ second[i].pageAuthority >= first[i].pageAuthority

\* calculateKeywordDifficulty of a drawn list and of a list that dominates it
ScoreCompetitors ==
  /\ handler = "score" /\ pc = "idle"
  /\ \E first \in CompetitorLists :
       \E second \in {l \in CompetitorLists : Dominates(l, first)} :
         /\ req' = [first |-> first, second |-> second]
         /\ loc' = [first |-> calculateKeywordDifficulty(first),
                    second |-> calculateKeywordDifficulty(second)]
  /\ pc' = "rated"
  /\ UNCHANGED <<ver, db, handler, calls, sent>>

\* calculateKeywordDifficulty([])
ScoreNoCompetitors ==
  /\ handler = "score" /\ pc = "idle"
  /\ req' = [first |-> <<>>, second |-> <<>>]
  /\ loc' = [first |-> calculateKeywordDifficulty(<<>>),
             second |-> calculateKeywordDifficulty(<<>>)]
  /\ pc' = "rated"
  /\ UNCHANGED <<ver, db, handler, calls, sent>>

\* a field of a summary item: absent (drawn as -1), 0 or a count
OptField(name, v) == IF v = -1 THEN [x \in {} |-> 0] ELSE name :> v

\* summary items with each denominator absent, 0 or positive
SummaryItemsWide ==
  { [referring_pages |-> 20, rank |-> 33]
      @@ OptField("backlinks", b) @@ OptField("broken_backlinks", k)
      @@ OptField("referring_domains", d) @@ OptField("referring_ips", i)
      @@ OptField("referring_subnets", n) :
    b \in {-1, 0, 40}, k \in {-1, 10}, d \in {-1, 0, 8},
    i \in {-1, 0, 5}, n \in {-1, 0, 4} }

\* processBacklinksSummary of a drawn item
ScoreSummary ==
  /\ handler = "score" /\ pc = "idle"
  /\ \E item \in SummaryItemsWide :
       /\ req' = item
       /\ loc' = processBacklinksSummary([kind |-> "obj", item |-> item])
  /\ pc' = "summarised"
  /\ UNCHANGED <<ver, db, handler, calls, sent>>

(***************************************************************************)
(* The site-authority client: MozApiService's constructor and the          *)
(* controller's mozService.                                                *)
(***************************************************************************)
\* the base64 alphabet of Buffer's toString("base64")
B64Chars ==
  <<
     "A", "B", "C", "D", "E", "F", "G", "H", "I", "J", "K", "L", "M", "N", "O", "P",
     "Q", "R", "S", "T", "U", "V", "W", "X", "Y", "Z", "a", "b", "c", "d", "e", "f",
     "g", "h", "i", "j", "k", "l", "m", "n", "o", "p", "q", "r", "s", "t", "u", "v",
     "w", "x", "y", "z", "0", "1", "2", "3", "4", "5", "6", "7", "8", "9", "+", "/" >>

\* the bytes of the characters the credentials are written in
CharCodes ==
  ("d" :> 100) @@ ("e" :> 101) @@ ("i" :> 105) @@ ("k" :> 107) @@ ("t" :> 116)
    @@ ("y" :> 121) @@ (":" :> 58)

\* Buffer.from(text).toString("base64") of a sequence of bytes
RECURSIVE Base64(_)
Base64(bytes) ==
  IF Len(bytes) = 0 THEN <<>>
  ELSE IF Len(bytes) = 1
    THEN << B64Chars[bytes[1] \div 4 + 1], B64Chars[(bytes[1] % 4) * 16 + 1], "=", "=" >>
  ELSE IF Len(bytes) = 2
    THEN << B64Chars[bytes[1] \div 4 + 1],
            B64Chars[(bytes[1] % 4) * 16 + bytes[2] \div 16 + 1],
            B64Chars[(bytes[2] % 16) * 4 + 1], "=" >>
  ELSE << B64Chars[bytes[1] \div 4 + 1],
          B64Chars[(bytes[1] % 4) * 16 + bytes[2] \div 16 + 1],
          B64Chars[(bytes[2] % 16) * 4 + bytes[3] \div 64 + 1],
          B64Chars[(bytes[3] % 64) + 1] >>
         \o Base64(SubSeq(bytes, 4, Len(bytes)))

\* a string that is there and not empty
NonEmptyStr(v) == v.kind = "str" /\ v.chars # <<>>

\* new MozApiService(config): the client with its x-moz-token, or the error thrown
MozApiService(config) ==
  IF NonEmptyStr(config.token)
    THEN [kind |-> "client", token |-> config.token.chars]
  ELSE IF NonEmptyStr(config.accessId) /\ NonEmptyStr(config.secretKey)
    THEN [kind |-> "client",
          token |-> Base64([i \in 1..(Len(config.accessId.chars) + 1 + Len(config.secretKey.chars)) |->
                             CharCodes[(config.accessId.chars \o <<":">> \o config.secretKey.chars)[i]]])]
  ELSE [kind |-> "error",
        message |-> "Moz API requires either 'token' or both 'accessId' and 'secretKey'"]

\* the configuration the controller builds from the environment
mozServiceConfig(env) ==
  IF NonEmptyStr(env.MOZ_TOKEN)
    THEN [token |-> env.MOZ_TOKEN, accessId |-> JUndef, secretKey |-> JUndef]
  ELSE [token |-> JUndef,
        accessId |-> IF NonEmptyStr(env.MOZ_ACCESS_ID) THEN env.MOZ_ACCESS_ID ELSE JStr(<<>>),
        secretKey |-> IF NonEmptyStr(env.MOZ_SECRET_KEY) THEN env.MOZ_SECRET_KEY ELSE JStr(<<>>)]

\* a credential: not given, empty, or one of the values
Credential(values) == {JUndef, JStr(<<>>)} \cup {JStr(v) : v \in values}

MozConfigs ==
  [token : Credential({<<"t", "k">>}), accessId : Credential({<<"i", "d">>}),
   secretKey : Credential({<<"k">>, <<"k", "e", "y">>})]

\* new MozApiService(config) of a drawn configuration
ConstructMozApiService ==
  /\ handler = "score" /\ pc = "idle"
  /\ \E config \in MozConfigs :
       /\ req' = config
       /\ loc' = MozApiService(config)
  /\ pc' = "constructed"
  /\ UNCHANGED <<ver, db, handler, calls, sent>>

\* the controller's mozService under a drawn environment
ConstructMozService ==
  /\ handler = "score" /\ pc = "idle"
  /\ \E env \in [MOZ_TOKEN : Credential({<<"t", "k">>}),
                  MOZ_ACCESS_ID : Credential({<<"i", "d">>}),
                  MOZ_SECRET_KEY : Credential({<<"k", "e", "y">>})] :
       /\ req' = env
       /\ loc' = MozApiService(mozServiceConfig(env))
  /\ pc' = "configured"
  /\ UNCHANGED <<ver, db, handler, calls, sent>>

(***************************************************************************)
(* The text-generation client: OpenAiApiService.createChatCompletion and   *)
(* generateKeywords.                                                       *)
(***************************************************************************)
\* the request createChatCompletion posts to /chat/completions; temperatures in
\* fixed point
createChatCompletion(params) ==
  [model |-> params.model,
   messages |-> params.messages,
   temperature |-> IF Truthy(params.temperature) THEN params.temperature
                   ELSE JNum((7 * FX) \div 10),
   max_tokens |-> params.max_tokens]

\* the parameters generateKeywords hands to createChatCompletion
generateKeywordsParams(systemPrompt) ==
  [model |-> "gpt-4o-mini",
   messages |-> <<[role |-> "system", content |-> systemPrompt]>>,
   temperature |-> JNum((7 * FX) \div 10),
   max_tokens |-> JUndef]

\* the parameters of a caller of createChatCompletion
ChatParams ==
  [model : {"gpt-4o-mini"},
   messages : {<<[role |-> "user", content |-> "hello"]>>,
               <<[role |-> "system", content |-> "rules"], [role |-> "user", content |-> "hello"]>>},
   temperature : {JUndef, JNum(0), JNum(FX \div 5), JNum((7 * FX) \div 10), JNum(FX)},
   max_tokens : {JUndef, JNum(256)}]

\* createChatCompletion of drawn parameters
CreateChatCompletion ==
  /\ handler = "score" /\ pc = "idle"
  /\ \E params \in ChatParams :
       /\ req' = params
       /\ loc' = createChatCompletion(params)
  /\ pc' = "requested"
  /\ UNCHANGED <<ver, db, handler, calls, sent>>

\* generateKeywords for a drawn niche
GenerateKeywords ==
  /\ handler = "score" /\ pc = "idle"
  /\ \E niche \in {"shoes", "tea"} :
       /\ req' = [niche |-> niche]
       /\ loc' = createChatCompletion(generateKeywordsParams(niche))
  /\ pc' = "generated"
  /\ UNCHANGED <<ver, db, handler, calls, sent>>

(***************************************************************************)
(* The middleware checkAuthorization (part_007), in its two revisions: the *)
(* first reads the permissions of the role from the database, the second   *)
(* from the user_data cookie.  The result is how often next() was called   *)
(* and the responses sent.                                                 *)
(***************************************************************************)
MaxPermissions == 2    \* permission rows of one role

\* permission rows: the module name and two of the five action flags
Permissions == [module : {"User_management", "Billing"}, canReadList : BOOLEAN, canCreate : BOOLEAN]

PermissionSets == {ps \in SUBSET Permissions : Cardinality(ps) <= MaxPermissions}

\* role.findFirst found no row
NoRole == [found |-> FALSE, permissions |-> {}]

\* the rows role.findFirst can answer for a role name
RoleRows == {NoRole} \cup [found : {TRUE}, permissions : PermissionSets]

\* the user_data cookie: missing, not a JWE of this server's key, the JSON null,
\* or the user row that login and renewToken encrypt
UserDataCookies ==
  [kind : {"missing", "undecryptable", "null"}]
    \cup [kind : {"user"}, role : [name : {"admin", "moderator", "user"},
                                     hasPermissions : BOOLEAN, permissions : PermissionSets]]

\* a permission of the module, whatever its flags
HasPermission_AnyFlag(permissions, module, action) ==
  \E permission \in permissions : permission.module = module

\* permissions.some(permission => permission.module?.name === module && permission[action] === true)
HasPermission(permissions, module, action) ==
  \E permission \in permissions : permission.module = module /\ permission[action] = TRUE

\* the outcomes of the middleware
Passed == [next |-> 1, sent |-> <<>>]

Refused(code, message) ==
  [next |-> 0, sent |-> <<[status |-> code, success |-> FALSE, message |-> message]>>]

\* checkAuthorization, first revision: the permissions of the role row of the database
checkAuthorizationByRole(userData, module, action, checkRole) ==
  IF userData.kind = "missing" THEN Refused(401, "Unauthorized")
  ELSE IF userData.kind = "undecryptable" THEN Refused(401, "Unauthorized")
  ELSE IF userData.kind = "null" THEN Refused(500, "Decryption failed")
  ELSE IF userData.role.name = "admin" THEN Passed
  ELSE IF ~checkRole.found THEN Refused(403, "Not Authorized")
  ELSE IF HasPermission(checkRole.permissions, module, action) THEN Passed
  ELSE Refused(403, "Not Authorized")

\* checkAuthorization, second revision: the permissions the cookie carries
checkAuthorizationByCookie(userData, module, action) ==
  IF userData.kind = "missing" THEN Refused(401, "Unauthorized")
  ELSE IF userData.kind = "undecryptable" THEN Refused(401, "Unauthorized")
  ELSE IF userData.kind = "null" THEN Refused(500, "Decryption failed")
  ELSE IF userData.role.name = "admin" THEN Passed
  ELSE IF ~userData.role.hasPermissions \/ userData.role.permissions = {}
    THEN Refused(403, "Not Authorized")
  ELSE IF HasPermission(userData.role.permissions, module, action) THEN Passed
  ELSE Refused(403, "Not Authorized")

\* a request passes the middleware of a route
CheckAuthorization ==
  /\ handler = "score" /\ pc = "idle"
  /\ \E userData \in UserDataCookies, module \in {"User_management", "Billing"},
        action \in {"canReadList", "canCreate"}, checkRole \in RoleRows :
       /\ req' = [user_data |-> userData, module |-> module, action |-> action,
                  checkRole |-> checkRole]
       /\ loc' = IF ver = "v1"
                   THEN checkAuthorizationByRole(userData, module, action, checkRole)
                   ELSE checkAuthorizationByCookie(userData, module, action)
  /\ pc' = "authorization"
  /\ UNCHANGED <<ver, db, handler, calls, sent>>

ScoreInit ==
  /\ ver \in {"v1", "v2"}
  /\ handler = "score" /\ pc = "idle"
  /\ req = NoReq /\ loc = NoLoc /\ calls = <<>> /\ sent = <<>>
  /\ db = NoDb

ScoreNext ==
  \/ ScoreSiteMetrics
  \/ ScoreCompetitors
  \/ ScoreNoCompetitors
  \/ ScoreSummary
  \/ ConstructMozApiService
  \/ ConstructMozService
  \/ CreateChatCompletion
  \/ GenerateKeywords
  \/ CheckAuthorization

ScoreSpec == ScoreInit /\ [][ScoreNext]_vars

(***************************************************************************)
(* The provider calls of one request as the handler awaits them: a call    *)
(* begins, the handler is suspended, the call settles, the handler goes    *)
(* on.  getSerpCompetitors and getDomainMetrics.                           *)
(***************************************************************************)
\* the provider operation a step of a handler calls
OpOf(step) == IF step = "getKeywordDifficulty:fallback" THEN "getKeywordDifficulty" ELSE step

\* how the call of a step can settle
AwaitOutcomes(step) ==
  IF step = "getGoogleSerp" THEN {"rejected", "resolved", "resolved:empty"}
  ELSE {"rejected", "resolved"}

\* where the handler goes once the call of a step has settled: the next step, the
\* success envelope, "No SERP results found", or the outer catch
AfterAwait(step, outcome, fallbackLocale) ==
  CASE step = "getGoogleSerp" ->
         IF outcome = "rejected" THEN "catch"
         ELSE IF outcome = "resolved:empty" THEN "notFound"
         ELSE "getKeywordDifficulty"
    [] step = "getKeywordDifficulty" ->
         IF outcome = "rejected" /\ fallbackLocale THEN "getKeywordDifficulty:fallback"
         ELSE "getMultipleSiteMetrics"
    [] step = "getKeywordDifficulty:fallback" -> "getMultipleSiteMetrics"
    [] step = "getMultipleSiteMetrics" ->
         IF outcome = "rejected" THEN "catch" ELSE "success"
    [] step = "getSiteMetrics" ->
         IF outcome = "rejected" THEN "catch" ELSE "getSiteMetricsDistributions"
    [] step = "getSiteMetricsDistributions" ->
         IF outcome = "rejected" THEN "catch" ELSE "getTopReferringDomains"
    [] step = "getTopReferringDomains" ->
         IF outcome = "rejected" THEN "catch" ELSE "getBacklinksSummary"
    [] step = "getBacklinksSummary" -> "getBacklinksHistory"
    [] step = "getBacklinksHistory" -> "getAnchors"
    [] step = "getAnchors" -> "success"

\* a call begins while another is pending: calls issued together, as with Promise.all
Awaited_StartedTogether == TRUE

\* await: the handler does not go on while a call is pending
Awaited == ~loc.pending

\* the request arrives with its required fields; fallbackLocale is given or not
AwaitStart ==
  /\ handler = "idle"
  /\ \E h \in {"getSerpCompetitors", "getDomainMetrics"}, fallbackLocale \in BOOLEAN :
       /\ handler' = h
       /\ req' = [fallbackLocale |-> fallbackLocale]
       /\ pc' = IF h = "getSerpCompetitors" THEN "getGoogleSerp" ELSE "getSiteMetrics"
  /\ loc' = [pending |-> FALSE]
  /\ UNCHANGED <<ver, db, calls, sent>>

\* the call of the current step begins
AwaitBegin ==
  /\ handler \in {"getSerpCompetitors", "getDomainMetrics"}
  /\ pc \notin {"idle", "done"}
  /\ Awaited
  /\ calls' = Append(calls, [op |-> OpOf(pc), step |-> pc, event |-> "begin",
                             outcome |-> "pending"])
  /\ loc' = [pending |-> TRUE]
  /\ UNCHANGED <<ver, db, handler, pc, req, sent>>

\* the pending call settles and the handler goes on to its next step or answers
AwaitSettle ==
  /\ handler \in {"getSerpCompetitors", "getDomainMetrics"}
  /\ pc \notin {"idle", "done"}
  /\ loc.pending
  /\ \E outcome \in AwaitOutcomes(pc) :
       /\ calls' = Append(calls, [op |-> OpOf(pc), step |-> pc, event |-> "settle",
                                  outcome |-> outcome])
       /\ LET next == AfterAwait(pc, outcome, req.fallbackLocale)
          IN /\ pc' = IF next \in {"catch", "notFound", "success"} THEN "done" ELSE next
             /\ sent' = IF next = "catch" THEN sendError(500, ProviderError)
                        ELSE IF next = "notFound" THEN sendError(404, "No SERP results found")
                        ELSE IF next = "success"
                          THEN sendSuccessUnencrypted(JNull, "completed")
                        ELSE sent
  /\ loc' = [pending |-> FALSE]
  /\ UNCHANGED <<ver, db, handler, req>>

AwaitNext ==
  \/ AwaitStart
  \/ AwaitBegin
  \/ AwaitSettle
  \/ Finish

AwaitSpec == Init /\ [][AwaitNext]_vars

(***************************************************************************)
(* The auth and user handlers: register, login, logout, renewToken,        *)
(* getAllSessions (auth.controller.ts) and getUserData (part_011).  Two    *)
(* requests can be in flight; handler, pc, req, loc and sent are functions *)
(* of the request, db is the database, the clock and the refresh tokens    *)
(* the responses have handed out, calls logs the database writes that take *)
(* a refresh token out of the session table, db.overlap tells whether the  *)
(* later of the two requests arrived before the earlier had returned.      *)
(* Every awaited database call is one step.  The database is taken to      *)
(* answer: a call fails only for what the tables hold.                     *)
(***************************************************************************)
Requests == {1, 2}

MaxRequests == 4    \* requests the server takes in one run
MaxClock == 1       \* seconds that pass in one run

\* the user table: an active, a suspended and a deleted account
Users ==
  { [id |-> "u1", email |-> "a@x", status |-> "ACTIVE", passwordHash |-> "pw"],
    [id |-> "u2", email |-> "s@x", status |-> "SUSPENDED", passwordHash |-> "pw"],
    [id |-> "u3", email |-> "d@x", status |-> "DELETED", passwordHash |-> "pw"] }

\* no refresh_token cookie
NoToken == <<>>

\* createToken(payload, "refresh_token"): a JWT signed over userId, email and the
\* expiry, which is the second of the clock plus a fixed span; nothing else goes in
createToken(userId, now) == <<userId, now>>

\* the requests a client can send: the refresh_token cookie is one a response has set
AuthRequests ==
  [handler : {"register"}, name : {"", "n"}, email : {"a@x", "new@x"}, password : {"", "pw"}]
    \cup [handler : {"login"}, email : {"", "a@x", "s@x", "d@x", "n@x"}, password : {"", "pw", "bad"}]
    \cup [handler : {"logout", "renewToken"}, userId : {"", "u1", "u2", "u3", "u9"},
          refresh_token : {NoToken} \cup db.cookies]
    \cup [handler : {"getAllSessions", "getUserData"}, userId : {"", "u1", "u2", "u3", "u9"}]

\* the requests that can arrive while another one is in flight
OverlappingRequests ==
  [handler : {"logout", "renewToken"}, userId : {"u1"}, refresh_token : db.cookies]

\* checkUser(req)
checkUser(userId) ==
  IF userId = ""
    THEN [success |-> FALSE, code |-> 401, error |-> "Unauthorized request", data |-> JNull]
  ELSE IF ~\E u \in db.users : u.id = userId
    THEN [success |-> FALSE, code |-> 404, error |-> "User not found", data |-> JNull]
  ELSE IF (CHOOSE u \in db.users : u.id = userId).status = "SUSPENDED"
    THEN [success |-> FALSE, code |-> 403, error |-> "This account is suspended.", data |-> JNull]
  ELSE IF (CHOOSE u \in db.users : u.id = userId).status = "DELETED"
    THEN [success |-> FALSE, code |-> 403, error |-> "This account is deleted.", data |-> JNull]
  ELSE [success |-> TRUE, code |-> 200, error |-> "",
        data |-> CHOOSE u \in db.users : u.id = userId]

\* sendError / sendSuccess: one response of request p; refresh is the refresh_token
\* cookie it sets (NoToken: none)
Respond(p, status, message, refresh) ==
  /\ sent' = [sent EXCEPT ![p] = Append(@, [status |-> status, success |-> status = 200,
                                             message |-> message, refresh_token |-> refresh])]
  /\ pc' = [pc EXCEPT ![p] = "done"]

\* a request arrives
AuthStart ==
  \E p \in Requests :
    /\ handler[p] = "idle"
    /\ db.served < MaxRequests
    /\ \E r \in (IF \A q \in Requests : handler[q] = "idle" THEN AuthRequests
                 ELSE OverlappingRequests) :
         /\ handler' = [handler EXCEPT ![p] = r.handler]
         /\ pc' = [pc EXCEPT ![p] = r.handler]
         /\ req' = [req EXCEPT ![p] = r]
         /\ loc' = [loc EXCEPT ![p] =
                      [retired |-> r.handler = "renewToken"
                                     /\ \E i \in DOMAIN calls :
                                          calls[i].token = r.refresh_token
                                            /\ calls[i].token # calls[i].next]]
    /\ db' = [db EXCEPT !.served = @ + 1,
                        !.overlap = \E q \in Requests : pc[q] \notin {"idle", "done"}]
    /\ UNCHANGED <<ver, calls, sent>>

\* register: the body, the user of that email, the role
RegisterFind ==
  \E p \in Requests :
    /\ pc[p] = "register"
    /\ IF req[p].name = "" \/ req[p].password = ""
         THEN Respond(p, 404, "Name, email and password are required", NoToken)
       ELSE IF \E u \in db.users : u.email = req[p].email
         THEN Respond(p, 409, "User already exist", NoToken)
       ELSE pc' = [pc EXCEPT ![p] = "register:create"] /\ sent' = sent
    /\ UNCHANGED <<ver, handler, req, loc, calls, db>>

\* register: prismaClient.user.create
RegisterCreate ==
  \E p \in Requests :
    /\ pc[p] = "register:create"
    /\ db' = [db EXCEPT !.users = @ \cup {[id |-> "u4", email |-> req[p].email,
                                           status |-> "ACTIVE", passwordHash |-> req[p].password]}]
    /\ Respond(p, 200, "Registered successfully", NoToken)
    /\ UNCHANGED <<ver, handler, req, loc, calls>>

\* login up to the tokens; a deleted account returns an object and sends nothing
LoginFind ==
  \E p \in Requests :
    /\ pc[p] = "login"
    /\ IF req[p].email = "" \/ req[p].password = ""
         THEN Respond(p, 400, "Email and password are required", NoToken) /\ loc' = loc
       ELSE IF ~\E u \in db.users : u.email = req[p].email
         THEN Respond(p, 404, "Email address not found", NoToken) /\ loc' = loc
       ELSE LET checkUserRow == CHOOSE u \in db.users : u.email = req[p].email
            IN IF checkUserRow.status = "SUSPENDED"
                 THEN Respond(p, 403, "This account is suspended.", NoToken) /\ loc' = loc
               ELSE IF checkUserRow.status = "DELETED"
                 THEN /\ pc' = [pc EXCEPT ![p] = "done"]
                      /\ sent' = sent /\ loc' = loc
               ELSE IF checkUserRow.passwordHash # req[p].password
                 THEN Respond(p, 401, "Invalid password", NoToken) /\ loc' = loc
               ELSE \/ Respond(p, 401, "Error while creating tokens", NoToken) /\ loc' = loc
                    \/ /\ loc' = [loc EXCEPT ![p] =
                                    [retired |-> FALSE, userId |-> checkUserRow.id,
                                     refresh_token |-> createToken(checkUserRow.id, db.now)]]
                       /\ pc' = [pc EXCEPT ![p] = "login:create"]
                       /\ sent' = sent
    /\ UNCHANGED <<ver, handler, req, calls, db>>

\* login: prismaClient.session.create, the cookies, the answer.  The schema of the
\* session table is not part of the sources: where a row already holds the token the
\* create either adds a second row (no unique index) or throws (unique index)
LoginCreate ==
  \E p \in Requests :
    /\ pc[p] = "login:create"
    /\ \/ /\ db' = [db EXCEPT !.sessions = @ \cup {[id |-> db.served, userId |-> loc[p].userId,
                                                 token |-> loc[p].refresh_token]},
                            !.cookies = @ \cup {loc[p].refresh_token}]
          /\ Respond(p, 200, "Successfully logged in", loc[p].refresh_token)
       \/ /\ \E s \in db.sessions : s.token = loc[p].refresh_token
          /\ db' = db
          /\ Respond(p, 400, "Unique constraint failed", NoToken)
    /\ UNCHANGED <<ver, handler, req, loc, calls>>

\* logout up to the cookie
LogoutCheck ==
  \E p \in Requests :
    /\ pc[p] = "logout"
    /\ IF ~checkUser(req[p].userId).success
         THEN Respond(p, 400, checkUser(req[p].userId).error, NoToken)
       ELSE IF req[p].refresh_token = NoToken
         THEN Respond(p, 401, "Unauthorized", NoToken)
       ELSE pc' = [pc EXCEPT ![p] = "logout:delete"] /\ sent' = sent
    /\ UNCHANGED <<ver, handler, req, loc, calls, db>>

\* logout: prismaClient.session.deleteMany({ where: { token } }), the cookies cleared
LogoutDelete ==
  \E p \in Requests :
    /\ pc[p] = "logout:delete"
    /\ db' = [db EXCEPT !.sessions = {s \in @ : s.token # req[p].refresh_token}]
    /\ calls' = Append(calls, [op |-> "deleteMany", token |-> req[p].refresh_token,
                               next |-> NoToken])
    /\ Respond(p, 200, "User logged out successfully", NoToken)
    /\ UNCHANGED <<ver, handler, req, loc>>

\* renewToken up to the tokens
RenewCheck ==
  \E p \in Requests :
    /\ pc[p] = "renewToken"
    /\ IF ~checkUser(req[p].userId).success
         THEN Respond(p, 400, checkUser(req[p].userId).error, NoToken) /\ loc' = loc
       ELSE IF req[p].refresh_token = NoToken
         THEN Respond(p, 401, "Unauthorized", NoToken) /\ loc' = loc
       ELSE \/ Respond(p, 401, "Error while creating tokens", NoToken) /\ loc' = loc
            \/ /\ loc' = [loc EXCEPT ![p] =
                            [retired |-> loc[p].retired, checkSession |-> 0,
                             refresh_token |-> createToken(req[p].userId, db.now)]]
               /\ pc' = [pc EXCEPT ![p] = "renew:find"]
               /\ sent' = sent
    /\ UNCHANGED <<ver, handler, req, calls, db>>

\* renewToken: prismaClient.session.findFirst({ where: { token: refreshToken } })
RenewFind ==
  \E p \in Requests :
    /\ pc[p] = "renew:find"
    /\ IF ~\E s \in db.sessions : s.token = req[p].refresh_token
         THEN Respond(p, 401, "Session not found", NoToken) /\ loc' = loc
         ELSE \E s \in db.sessions :
                /\ s.token = req[p].refresh_token
                /\ loc' = [loc EXCEPT ![p].checkSession = s.id]
                /\ pc' = [pc EXCEPT ![p] = "renew:update"]
                /\ sent' = sent
    /\ UNCHANGED <<ver, handler, req, calls, db>>

\* renewToken: prismaClient.session.update({ where: { id } }), the cookies, the answer;
\* the update of a row that is gone throws, and so does one that a unique index refuses
RenewUpdate ==
  \E p \in Requests :
    /\ pc[p] = "renew:update"
    /\ IF ~\E s \in db.sessions : s.id = loc[p].checkSession
         THEN /\ Respond(p, 400, "Record to update not found", NoToken)
              /\ db' = db /\ calls' = calls
         ELSE \/ /\ db' = [db EXCEPT !.sessions =
                             {IF s.id = loc[p].checkSession
                                THEN [s EXCEPT !.token = loc[p].refresh_token] ELSE s : s \in @},
                               !.cookies = @ \cup {loc[p].refresh_token}]
                 /\ calls' = Append(calls, [op |-> "update", token |-> req[p].refresh_token,
                                            next |-> loc[p].refresh_token])
                 /\ Respond(p, 200, "Tokens renewed successfully", loc[p].refresh_token)
              \/ /\ \E s \in db.sessions : /\ s.id # loc[p].checkSession
                                            /\ s.token = loc[p].refresh_token
                 /\ Respond(p, 400, "Unique constraint failed", NoToken)
                 /\ db' = db /\ calls' = calls
    /\ UNCHANGED <<ver, handler, req, loc>>

\* getAllSessions: checkUser and session.findMany
GetAllSessions ==
  \E p \in Requests :
    /\ pc[p] = "getAllSessions"
    /\ IF ~checkUser(req[p].userId).success
         THEN Respond(p, 400, checkUser(req[p].userId).error, NoToken)
         ELSE Respond(p, 200, "ok", NoToken)
    /\ UNCHANGED <<ver, handler, req, loc, calls, db>>

\* getUserData: without a userId it returns an object and sends nothing
GetUserData ==
  \E p \in Requests :
    /\ pc[p] = "getUserData"
    /\ IF req[p].userId = ""
         THEN pc' = [pc EXCEPT ![p] = "done"] /\ sent' = sent
       ELSE IF ~\E u \in db.users : u.id = req[p].userId
         THEN Respond(p, 404, "User not found", NoToken)
       ELSE Respond(p, 200, "ok", NoToken)
    /\ UNCHANGED <<ver, handler, req, loc, calls, db>>

\* a second passes
Tick ==
  /\ db.now < MaxClock
  /\ db' = [db EXCEPT !.now = @ + 1]
  /\ UNCHANGED <<ver, handler, pc, req, loc, calls, sent>>

\* the connection of a request whose handler has returned is closed
AuthFinish ==
  \E p \in Requests :
    /\ pc[p] = "done"
    /\ handler' = [handler EXCEPT ![p] = "idle"]
    /\ pc' = [pc EXCEPT ![p] = "idle"]
    /\ req' = [req EXCEPT ![p] = NoReq]
    /\ loc' = [loc EXCEPT ![p] = NoLoc]
    /\ sent' = [sent EXCEPT ![p] = <<>>]
    /\ db' = [db EXCEPT !.overlap = FALSE]
    /\ UNCHANGED <<ver, calls>>

AuthInit ==
  /\ ver = "v2"
  /\ handler = [p \in Requests |-> "idle"]
  /\ pc = [p \in Requests |-> "idle"]
  /\ req = [p \in Requests |-> NoReq]
  /\ loc = [p \in Requests |-> NoLoc]
  /\ sent = [p \in Requests |-> <<>>]
  /\ calls = <<>>
  /\ db = [users |-> Users, sessions |-> {}, cookies |-> {}, now |-> 0, served |-> 0,
           overlap |-> FALSE]

AuthNext ==
  \/ AuthStart
  \/ RegisterFind
  \/ RegisterCreate
  \/ LoginFind
  \/ LoginCreate
  \/ LogoutCheck
  \/ LogoutDelete
  \/ RenewCheck
  \/ RenewFind
  \/ RenewUpdate
  \/ GetAllSessions
  \/ GetUserData
  \/ Tick
  \/ AuthFinish

AuthSpec == AuthInit /\ [][AuthNext]_vars

(***************************************************************************)
(* Properties.                                                             *)
(***************************************************************************)
Done == pc = "done"

\* the current request was answered with the success envelope
Succeeded == Done /\ Len(sent) = 1 /\ sent[1].success /\ sent[1].status = 200

\* the positions of the calls of an operation / of its rejected calls
CallsOf(op) == {i \in DOMAIN calls : calls[i].op = op}
FailedCallsOf(op) == {i \in CallsOf(op) : ~calls[i].ok}
FailedCalls == {i \in DOMAIN calls : ~calls[i].ok}

(***************************************************************************)
(* C1 -- getDomainMetrics: when exactly one of the six sub-fetches fails,  *)
(* the request is not aborted: all six sub-fetches were attempted, the     *)
(* answer is the success response, and the failed sub-result is null or    *)
(* empty in it.                                                            *)
(***************************************************************************)
DomainOps ==
  <<"getSiteMetrics", "getSiteMetricsDistributions", "getTopReferringDomains",
    "getBacklinksSummary", "getBacklinksHistory", "getAnchors">>

\* the response field of sub-fetch i is null, {} or []
DomainFieldEmpty(data, i) ==
  CASE i = 1 -> data.siteMetrics = EmptyObj
    [] i = 2 -> data.distributions = EmptyObj
    [] i = 3 -> data.topReferringDomains = JArr(<<>>)
    [] i = 4 -> data.backlinksSummary = JNull
    [] i = 5 -> data.backlinksHistory = JNull
    [] i = 6 -> data.anchors = JArr(<<>>)

C1_SingleFailureIsolated ==
  (handler = "getDomainMetrics" /\ Done /\ req.domain # <<>> /\ Cardinality(FailedCalls) = 1)
    => /\ Len(calls) = 6
       /\ \A i \in 1..6 : calls[i].op = DomainOps[i]
       /\ Succeeded
       /\ \A i \in FailedCalls : DomainFieldEmpty(sent[1].data, i)

(***************************************************************************)
(* C2 -- getSerpCompetitors: whenever a difficulty lookup returned a value *)
(* (any number, 0 included) the response's keywordDifficulty is that       *)
(* value; the computed difficulty appears only without a vendor value.     *)
(***************************************************************************)
C2_VendorDifficultyWins ==
  (handler = "getSerpCompetitors" /\ Succeeded /\ loc.keywordDifficulty.kind = "num")
    => sent[1].data.keywordDifficulty = loc.keywordDifficulty

(***************************************************************************)
(* C3 -- getSerpCompetitors: the difficulty lookup is invoked at most      *)
(* twice; the second invocation, with the caller's fallbackLocale, happens *)
(* only after the first one failed and only if a fallbackLocale was        *)
(* supplied; when every lookup that was tried failed, the difficulty stays *)
(* null, nothing is sent because of it and the site-metrics step is next.  *)
(***************************************************************************)
KDCalls == CallsOf("getKeywordDifficulty")

KDAllFailed ==
  /\ handler = "getSerpCompetitors"
  /\ pc \in {"metrics", "done"}
  /\ KDCalls # {}
  /\ \A i \in KDCalls : ~calls[i].ok

KDAtMostTwice ==
  /\ Cardinality(KDCalls) <= 2
  /\ \A i \in KDCalls : i \in {2, 3}
  /\ 3 \in KDCalls =>
       /\ 2 \in KDCalls /\ ~calls[2].ok
       /\ req.fallbackLocale # ""
       /\ calls[3].arg = <<req.fallbackLocale>>

KDFailureNonFatal ==
  KDAllFailed =>
    /\ loc.keywordDifficulty = JNull
    /\ pc = "metrics" => sent = <<>>
    /\ Done => /\ Len(calls) = Cardinality(KDCalls) + 2
               /\ calls[Len(calls)].op = "getMultipleSiteMetrics"

C4_ShortBatchFloorScores ==
  (handler = "getSerpCompetitors" /\ Succeeded
     /\ Len(loc.batch) < Min(TOP_N, Len(loc.serpItems)))
    => LET competitors == sent[1].data.competitors
       IN /\ Len(competitors) = Min(TOP_N, Len(loc.serpItems))
          /\ \A i \in 1..Len(competitors) :
               /\ competitors[i].url = loc.serpItems[i].url
               /\ competitors[i].title = loc.serpItems[i].title
               /\ competitors[i].rankGroup = loc.serpItems[i].rank_group
               /\ competitors[i].rankAbsolute = loc.serpItems[i].rank_absolute
               /\ i > Len(loc.batch) =>
                    /\ competitors[i].domainAuthority = 0
                    /\ competitors[i].pageAuthority = 0
                    /\ competitors[i].rootDomains = 0
                    /\ competitors[i].spamScore = 0
                    /\ competitors[i].cf = calculateCF(ZeroMetrics)
                    /\ competitors[i].tf = calculateTF(ZeroMetrics)

(***************************************************************************)
(* C5 -- every SEO handler: a request whose body lacks a required field is *)
(* answered with status 400 and no provider call is made for it.           *)
(***************************************************************************)
LacksRequiredField ==
  CASE handler = "getSerpCompetitors" ->
         req.keyword = "" \/ req.locationCodeGoogle = 0 \/ req.languageCode = ""
    [] handler = "findOpportunities" ->
         \/ req.niche = "" \/ req.googleLanguageCode = ""
         \/ req.googleLocationCode = 0 \/ req.googleLanguageName = ""
    [] handler \in {"getBacklinks", "getDomainMetrics", "getDomainMetricsAdvanced"} ->
         req.domain = <<>>
    [] OTHER -> FALSE

C5_MissingFieldRejected ==
  LacksRequiredField =>
    /\ calls = <<>>
    /\ Done
    /\ Len(sent) = 1 /\ sent[1].status = 400

(***************************************************************************)
(* C6 -- getSerpCompetitors: if the SERP lookup resolves without items     *)
(* (tasks, result or items missing, or items empty) the answer is 404      *)
(* "No SERP results found" and neither the difficulty lookup nor the       *)
(* site-metrics call is made.                                              *)
(***************************************************************************)
C6_EmptySerpIs404 ==
  (handler = "getSerpCompetitors" /\ calls # <<>> /\ calls[1].ok
     /\ (loc.serpResults.path \in {"no_tasks", "no_result", "no_items"}
           \/ loc.serpResults.items = <<>>))
    => /\ Done
       /\ sent = <<[status |-> 404, success |-> FALSE,
                    message |-> "No SERP results found", data |-> JNull]>>
       /\ CallsOf("getKeywordDifficulty") = {}
       /\ CallsOf("getMultipleSiteMetrics") = {}
       /\ Len(calls) = 1 /\ calls[1].op = "getGoogleSerp"

C6_Witness ==
  /\ handler = "getSerpCompetitors" /\ Done
  /\ calls # <<>> /\ calls[1].ok
  /\ loc.serpResults.path = "items" /\ loc.serpResults.items = <<>>
  /\ sent[1].status = 404

(***************************************************************************)
(* C7 -- getDomainMetrics with a valid domain: when the backlinks-history  *)
(* call is the only sub-fetch that fails, the response is HTTP 200 with    *)
(* backlinksHistory = null and the other five fields carry what their      *)
(* calls returned.                                                         *)
(***************************************************************************)
OnlyHistoryFailed ==
  /\ handler = "getDomainMetrics" /\ Done /\ req.domain # <<>>
  /\ FailedCalls = {5}
  /\ calls[5].op = "getBacklinksHistory"

C7_HistoryFailureIsolated ==
  OnlyHistoryFailed =>
    /\ Len(calls) = 6
    /\ Succeeded
    /\ LET data == sent[1].data
       IN /\ data.backlinksHistory = JNull
          /\ loc.siteMetrics.kind = "obj" => data.siteMetrics = loc.siteMetrics
          /\ loc.distributions.kind = "obj" => data.distributions = loc.distributions
          /\ loc.topReferringDomains.kind = "array" =>
               /\ Len(data.topReferringDomains.items) = Len(loc.topReferringDomains.items)
               /\ \A i \in 1..Len(loc.topReferringDomains.items) :
                    LET m == loc.topReferringDomains.items[i].site_metrics
                        d == data.topReferringDomains.items[i]
                    IN m.kind = "obj" =>
                         /\ d.domain = m.root_domain
                         /\ d.da = m.domain_authority
                         /\ d.pa = m.page_authority
                         /\ d.links = m.pages_to_root_domain
          /\ loc.backlinksSummary.kind = "obj" =>
               /\ data.backlinksSummary.kind = "obj"
               /\ data.backlinksSummary.backlinks = loc.backlinksSummary.item.backlinks
               /\ data.backlinksSummary.referringDomains = loc.backlinksSummary.item.referring_domains
               /\ data.backlinksSummary.rank = loc.backlinksSummary.item.rank
          /\ loc.anchors.kind = "array" =>
               /\ Len(data.anchors.items) = Len(loc.anchors.items)
               /\ \A i \in 1..Len(loc.anchors.items) :
                    /\ data.anchors.items[i].anchorText = loc.anchors.items[i].anchor
                    /\ data.anchors.items[i].total = loc.anchors.items[i].backlinks

C7_Witness ==
  /\ OnlyHistoryFailed /\ Succeeded
  /\ sent[1].data.backlinksHistory = JNull
  /\ loc.siteMetrics.kind = "obj"
  /\ loc.backlinksSummary.kind = "obj"
  /\ loc.anchors.kind = "array" /\ loc.anchors.items # <<>>
  /\ sent[1].data.anchors.items # <<>>

(***************************************************************************)
(* C8 -- every run of an SEO handler, whatever the providers do, sends     *)
(* exactly one response: nothing before the handler returns, one envelope  *)
(* when it has returned, and that envelope is either success = true with   *)
(* status 200 or success = false with data = null and status 400, 404 or   *)
(* 500.  A handler that has not returned can always take its next step.    *)
(***************************************************************************)
FullyFormed(r) ==
  /\ DOMAIN r = {"status", "success", "message", "data"}
  /\ \/ r.success /\ r.status = 200
     \/ ~r.success /\ r.data = JNull /\ r.status \in {400, 404, 500}

C8_ExactlyOneEnvelope ==
  /\ Len(sent) <= 1
  /\ Done => Len(sent) = 1 /\ FullyFormed(sent[1])
  /\ (handler # "idle" /\ ~Done) => sent = <<>> /\ ENABLED Next
  /\ handler = "idle" => sent = <<>>

C8_Witness ==
  /\ handler = "findOpportunitiesSV" /\ Done
  /\ Len(calls) = 2 /\ calls[2].ok
  /\ Len(sent) = 1 /\ sent[1].status = 500 /\ sent[1].message = TypeError

(***************************************************************************)
(* C9 -- findOpportunities: every keyword of the output comes from a       *)
(* metrics entry with at least one concept whose concept_group type is     *)
(* NON_BRAND; entries without keyword_annotations, without concepts or     *)
(* with an empty concepts list are never in the output; and when at most   *)
(* 100 entries qualify, every qualifying entry of every task is in it.     *)
(***************************************************************************)
\* the entries of every task of the metrics answer the handler received
MetricsEntries ==
  IF loc.tasks.kind # "array" THEN {}
  ELSE UNION {{loc.tasks.items[t].result.items[i] : i \in 1..Len(loc.tasks.items[t].result.items)} :
                t \in {u \in 1..Len(loc.tasks.items) : loc.tasks.items[u].result.kind = "array"}}

LacksConcepts(e) ==
  \/ e.keyword_annotations.kind # "obj"
  \/ e.keyword_annotations.concepts.kind # "array"
  \/ e.keyword_annotations.concepts.items = <<>>

HasNonBrandConcept(e) ==
  /\ ~LacksConcepts(e)
  /\ \E i \in 1..Len(e.keyword_annotations.concepts.items) :
       LET c == e.keyword_annotations.concepts.items[i]
       IN c.concept_group.kind = "obj" /\ c.concept_group.type = "NON_BRAND"

OutputKeywords == {sent[1].data.keywords[i].keyword : i \in 1..Len(sent[1].data.keywords)}

OppAnswered == handler = "findOpportunities" /\ Succeeded

C9_NonBrandFilter ==
  OppAnswered =>
    LET qualifying == {e \in MetricsEntries : HasNonBrandConcept(e)}
    IN /\ OutputKeywords \subseteq {e.keyword : e \in qualifying}
       /\ \A e \in MetricsEntries : LacksConcepts(e) => e.keyword \notin OutputKeywords
       /\ Cardinality(qualifying) <= 100 => {e.keyword : e \in qualifying} \subseteq OutputKeywords
       /\ Len(sent[1].data.keywords) = Cardinality(OutputKeywords)

C9_Witness ==
  /\ OppAnswered
  /\ loc.tasks.kind = "array" /\ Len(loc.tasks.items) = 2
  /\ \E e \in MetricsEntries : e.keyword[1] = 2 /\ e.keyword \in OutputKeywords
  /\ \E e \in MetricsEntries :
       ~LacksConcepts(e) /\ ~HasNonBrandConcept(e) /\ e.keyword \notin OutputKeywords

(***************************************************************************)
(* C10 -- findOpportunities: when the generated text yielded keywords and  *)
(* the metrics call resolved, but every entry of the answer lacks concept  *)
(* annotations (or the answer has no tasks or no results), the handler     *)
(* does not take the exception path: it answers success with               *)
(* keywords = [] and totalKeywords = 0.                                    *)
(***************************************************************************)
NothingAnnotated ==
  /\ handler = "findOpportunities" /\ Done
  /\ Len(calls) = 2 /\ calls[2].op = "getKeywordsForKeywords" /\ calls[2].ok
  /\ loc.keywords # <<>>
  /\ \A e \in MetricsEntries : LacksConcepts(e)

C10_EmptyResultNotFailure ==
  NothingAnnotated =>
    /\ Succeeded
    /\ sent[1].data.keywords = <<>>
    /\ sent[1].data.totalKeywords = 0

C10_Witness ==
  /\ NothingAnnotated /\ Succeeded
  /\ Cardinality(MetricsEntries) = 2
  /\ sent[1].data.totalKeywords = 0

(***************************************************************************)
(* C11 -- findOpportunities: the keyword list of the response has at most  *)
(* 100 entries, is ordered by non-increasing search volume (a missing      *)
(* volume counts as 0), and no qualifying entry that was left out has a    *)
(* search volume greater than one of the entries kept.                     *)
(***************************************************************************)
VolumeOf(e) == IF e.search_volume.kind = "num" THEN e.search_volume.val ELSE 0

C11_Top100ByVolume ==
  OppAnswered =>
    LET keywords == sent[1].data.keywords
        leftOut == {e \in MetricsEntries : HasNonBrandConcept(e) /\ e.keyword \notin OutputKeywords}
    IN /\ Len(keywords) <= 100
       /\ \A i \in 1..Len(keywords) : \A j \in i..Len(keywords) :
            keywords[i].searchVolume >= keywords[j].searchVolume
       /\ \A e \in leftOut : \A i \in 1..Len(keywords) :
            VolumeOf(e) <= keywords[i].searchVolume
       /\ \A i \in 1..Len(keywords) : \E e \in MetricsEntries :
            e.keyword = keywords[i].keyword /\ keywords[i].searchVolume = VolumeOf(e)

\* 101 entries qualify: 100 are kept, in three runs of volumes, one of volume 0 is left out
C11_Witness ==
  /\ OppAnswered
  /\ Cardinality(MetricsEntries) = 101
  /\ Len(sent[1].data.keywords) = 100
  /\ sent[1].data.keywords[1].searchVolume > sent[1].data.keywords[100].searchVolume
  /\ \E e \in MetricsEntries : e.keyword \notin OutputKeywords

(***************************************************************************)
(* C12 -- findOpportunities: if the text-generation call fails, or         *)
(* resolves with missing or empty content, the request fails with a 500    *)
(* response and the keyword-metrics provider is never called for it.       *)
(***************************************************************************)
NoGeneratedText ==
  /\ handler = "findOpportunities"
  /\ calls # <<>> /\ calls[1].op = "generateKeywords"
  /\ \/ ~calls[1].ok
     \/ loc.content = JUndef
     \/ loc.content = JStr(<<>>)

C12_NoTextIs500 ==
  NoGeneratedText =>
    /\ Done
    /\ Len(sent) = 1 /\ sent[1].status = 500 /\ ~sent[1].success
    /\ Len(calls) = 1
    /\ CallsOf("getKeywordsForKeywords") = {}

C12_Witness ==
  /\ NoGeneratedText /\ Done
  /\ calls[1].ok /\ loc.content = JStr(<<>>)
  /\ sent[1].status = 500

(***************************************************************************)
(* C13 -- the domain normalization of getDomainMetrics and                 *)
(* getDomainMetricsAdvanced maps both "https://www.Example.com/" and       *)
(* "example.com" to "example.com".                                         *)
(***************************************************************************)
ExampleUrl ==
  <<"h", "t", "t", "p", "s", ":", "/", "/", "w", "w", "w", ".",
    "E", "x", "a", "m", "p", "l", "e", ".", "c", "o", "m", "/">>

ExampleCom == <<"e", "x", "a", "m", "p", "l", "e", ".", "c", "o", "m">>

C13_NormalizesToExampleCom ==
  (handler \in {"getDomainMetrics", "getDomainMetricsAdvanced"}
     /\ req.domain \in {ExampleUrl, ExampleCom})
    => loc.formattedDomain = ExampleCom

(***************************************************************************)
(* C14 -- getDomainMetricsAdvanced with a valid domain: the top-content    *)
(* and the competitors sub-calls are both attempted; a failed sub-call     *)
(* contributes cost 0, an empty item list and totalCount 0 without         *)
(* aborting the request; totalCost = topContent.cost + competitors.cost.   *)
(***************************************************************************)
AdvancedReturned ==
  handler = "getDomainMetricsAdvanced" /\ Done /\ req.domain # <<>>

EmptyPart(part) == part.cost = 0 /\ part.items = <<>> /\ part.totalCount = 0

C14_AdvancedIsolatedCosts ==
  AdvancedReturned =>
    /\ Len(calls) = 2
    /\ calls[1].op = "getDomainPagesSummary" /\ calls[2].op = "getCompetitors"
    /\ Succeeded
    /\ LET data == sent[1].data
       IN /\ ~calls[1].ok => EmptyPart(data.topContent)
          /\ ~calls[2].ok => EmptyPart(data.competitors)
          /\ data.totalCost = data.topContent.cost + data.competitors.cost
          /\ calls[1].ok => data.topContent.cost = loc.topContentCost
          /\ calls[2].ok => data.competitors.cost = loc.competitorsCost

C14_Witness ==
  /\ AdvancedReturned /\ Succeeded
  /\ ~calls[1].ok /\ calls[2].ok
  /\ EmptyPart(sent[1].data.topContent)
  /\ sent[1].data.competitors.totalCount = 1
  /\ sent[1].data.totalCost = 2

(***************************************************************************)
(* C15 -- for a metrics record whose numeric fields are all zero,          *)
(* calculateCF and calculateTF each return a strictly positive floor       *)
(* value; for every record with non-negative fields both return an         *)
(* integer in [0, 100].                                                    *)
(***************************************************************************)
Scored == handler = "score" /\ pc = "scored"

AllZero(m) ==
  \A f \in DOMAIN m \ {"kind", "root_domain"} : m[f] = 0

C15_FloorAndRange ==
  Scored =>
    /\ loc.cf \in 0..100
    /\ loc.tf \in 0..100
    /\ AllZero(req) => loc.cf > 0 /\ loc.tf > 0

C15_Witness ==
  /\ Scored /\ AllZero(req)
  /\ loc.cf > 0 /\ loc.tf > 0

\* the clamp at work at both ends
C15_WitnessClamped ==
  /\ Scored
  /\ loc.cf = 100 \/ loc.tf = 0

(***************************************************************************)
(* C16 -- calculateKeywordDifficulty is monotonically non-decreasing and   *)
(* bounded: for two lists of equal length 1..10 where every competitor of  *)
(* the second has tf, cf, domainAuthority and pageAuthority at least those *)
(* of the corresponding competitor of the first (rootDomains equal), the   *)
(* result for the second is >= the result for the first; every result is   *)
(* an integer in [0, 100].                                                 *)
(***************************************************************************)
Rated == handler = "score" /\ pc = "rated"

SecondIsAtLeastFirst ==
  /\ Len(req.first) = Len(req.second)
  /\ Len(req.first) \in 1..10
  /\ \A i \in 1..Len(req.first) :
       /\ req.second[i].tf >= req.first[i].tf
       /\ req.second[i].cf >= req.first[i].cf
       /\ req.second[i].domainAuthority >= req.first[i].domainAuthority
       /\ req.second[i].pageAuthority >= req.first[i].pageAuthority
       /\ req.second[i].rootDomains = req.first[i].rootDomains

C16_MonotoneAndBounded ==
  Rated =>
    /\ loc.first \in 0..100
    /\ loc.second \in 0..100
    /\ SecondIsAtLeastFirst => loc.second >= loc.first

C16_Witness ==
  /\ Rated /\ SecondIsAtLeastFirst
  /\ Len(req.first) = 10
  /\ req.first # req.second
  /\ loc.second > loc.first


(***************************************************************************)
(* C17 -- processBacklinksSummary returns 0 for every ratio whose          *)
(* denominator is 0 or missing: activeLinksRatio and dofollowLinksRatio    *)
(* when backlinks is, avgLinksPerDomain, avgLinksPerIP and                 *)
(* avgLinksPerSubnet when referring_domains, referring_ips or              *)
(* referring_subnets is; nothing is divided by zero.                       *)
(***************************************************************************)
Summarised == handler = "score" /\ pc = "summarised"

ZeroOrMissing(item, name) == name \notin DOMAIN item \/ item[name] = 0

C17_ZeroDenominatorRatios ==
  Summarised =>
    /\ ZeroOrMissing(req, "backlinks") =>
         loc.activeLinksRatio = 0 /\ loc.dofollowLinksRatio = 0
    /\ ZeroOrMissing(req, "referring_domains") => loc.avgLinksPerDomain = 0
    /\ ZeroOrMissing(req, "referring_ips") => loc.avgLinksPerIP = 0
    /\ ZeroOrMissing(req, "referring_subnets") => loc.avgLinksPerSubnet = 0

\* backlinks missing and referring_domains 0 beside a denominator that divides
C17_Witness ==
  /\ Summarised
  /\ "backlinks" \notin DOMAIN req
  /\ "referring_domains" \in DOMAIN req /\ req.referring_domains = 0
  /\ "referring_ips" \in DOMAIN req /\ req.referring_ips > 0
  /\ loc.avgLinksPerIP = 4 * FX
  /\ loc.activeLinksRatio = 0 /\ loc.avgLinksPerDomain = 0


(***************************************************************************)
(* C18 -- constructing the site-authority client succeeds if and only if   *)
(* exactly one credential form is supplied: a token alone, or accessId and *)
(* secretKey together (the token then is the base64 of                     *)
(* "accessId:secretKey"); neither form, half of the pair, or both forms at *)
(* once is a configuration error.                                          *)
(***************************************************************************)
Constructed == handler = "score" /\ pc = "constructed"

TokenAlone ==
  NonEmptyStr(req.token) /\ ~NonEmptyStr(req.accessId) /\ ~NonEmptyStr(req.secretKey)

PairAlone ==
  ~NonEmptyStr(req.token) /\ NonEmptyStr(req.accessId) /\ NonEmptyStr(req.secretKey)

C18_ExactlyOneCredentialForm ==
  Constructed =>
    /\ loc.kind = "client" <=> (TokenAlone \/ PairAlone)
    /\ (PairAlone /\ req.accessId.chars = <<"i", "d">> /\ req.secretKey.chars = <<"k", "e", "y">>)
         => loc.token = <<"a", "W", "Q", "6", "a", "2", "V", "5">>

\* the code's rule: the token wins whenever it is there, the pair counts only without it
C18_TokenWins ==
  Constructed =>
    /\ loc.kind = "client"
         <=> (NonEmptyStr(req.token)
                \/ (NonEmptyStr(req.accessId) /\ NonEmptyStr(req.secretKey)))
    /\ NonEmptyStr(req.token) /\ loc.kind = "client" => loc.token = req.token.chars
    /\ (PairAlone /\ req.accessId.chars = <<"i", "d">> /\ req.secretKey.chars = <<"k", "e", "y">>)
         => loc.token = <<"a", "W", "Q", "6", "a", "2", "V", "5">>
    /\ (PairAlone /\ req.accessId.chars = <<"i", "d">> /\ req.secretKey.chars = <<"k">>)
         => loc.token = <<"a", "W", "Q", "6", "a", "w", "=", "=">>

\* both forms at once, and a client comes out
C18_BothFormsAccepted ==
  /\ Constructed
  /\ NonEmptyStr(req.token) /\ NonEmptyStr(req.accessId) /\ NonEmptyStr(req.secretKey)
  /\ loc.kind = "client"


(***************************************************************************)
(* C19 -- calculateKeywordDifficulty equals the reference: 0 for an empty  *)
(* list, otherwise the rescaled mean, over at most the first 10            *)
(* competitors in the given order, of                                      *)
(* 0.3*tf + 0.25*domainAuthority + 0.2*cf + 0.15*pageAuthority             *)
(* + 0.1*rdFactor; the trust score tf counts with weight 0.3 and the       *)
(* popularity score cf with weight 0.2.                                    *)
(***************************************************************************)
\* the referring-domain factor, normalized as the revision normalizes it
ReferenceRdFactor(comp, competitors) ==
  IF ver = "v1" THEN Min(50 * FX, Log1p(Fx(comp.rootDomains)) * 3)
  ELSE IF MaxRootDomains(competitors) > 0
    THEN Div(Log1p(Fx(comp.rootDomains)), Log1p(Fx(MaxRootDomains(competitors)))) * 50
  ELSE 0

ReferenceBlend(comp, competitors) ==
  Mul(Fx(comp.tf), (3 * FX) \div 10) + Mul(Fx(comp.domainAuthority), (25 * FX) \div 100)
    + Mul(Fx(comp.cf), (2 * FX) \div 10) + Mul(Fx(comp.pageAuthority), (15 * FX) \div 100)
    + Mul(ReferenceRdFactor(comp, competitors), FX \div 10)

RECURSIVE ReferenceSum(_, _)
ReferenceSum(top, competitors) ==
  IF top = <<>> THEN 0
  ELSE ReferenceBlend(Head(top), competitors) + ReferenceSum(Tail(top), competitors)

\* the mean rescaled as the revision rescales it: 1.55 * mean - 5, or the sigmoid
ReferenceRescale(mean) ==
  IF ver = "v1" THEN Clamp100(Mul(mean, (155 * FX) \div 100) - 5 * FX)
  ELSE Clamp100(Div(100 * FX, FX + Exp(-Mul(mean - 50 * FX, (5 * FX) \div 100))))

ReferenceDifficulty(competitors) ==
  IF Len(competitors) = 0 THEN 0
  ELSE ReferenceRescale(ReferenceSum(Slice(competitors, TOP_N), competitors)
                          \div Min(Len(competitors), TOP_N))

C19_EqualsReference ==
  Rated =>
    /\ loc.first = ReferenceDifficulty(req.first)
    /\ loc.second = ReferenceDifficulty(req.second)

\* seo.controller.ts rates a competitor with trust 100 and nothing else like one without
\* any score, where the reference gives it 0.3 * 100 of strength
C19_TrustIgnored ==
  /\ Rated /\ ver = "v1"
  /\ Len(req.first) = 1 /\ Len(req.second) = 1
  /\ req.first[1].tf = 0 /\ req.second[1].tf = 100
  /\ req.first[1].cf = 0 /\ req.second[1].cf = 0
  /\ loc.first = loc.second
  /\ ReferenceDifficulty(req.second) > ReferenceDifficulty(req.first)

\* part_011 agrees with the reference on every list rated
C19_SecondRevisionEqualsReference == (Rated /\ ver = "v2") => C19_EqualsReference


(***************************************************************************)
(* C20 -- every provider call of getDomainMetrics and                      *)
(* getDomainMetricsAdvanced has the normalized domain, or the URL          *)
(* https://<normalized>/ built from it, as its target; the request's own   *)
(* string is never sent to a provider.                                     *)
(***************************************************************************)
InDomainHandler == handler \in {"getDomainMetrics", "getDomainMetricsAdvanced"}

C20_TargetsAreNormalized ==
  InDomainHandler =>
    \A i \in DOMAIN calls :
      calls[i].arg \in {FormatDomain(req.domain), HttpDomain(FormatDomain(req.domain))}

\* getAnchors is the one call that carries the request's string
C20_AllButAnchorsNormalized ==
  InDomainHandler =>
    \A i \in DOMAIN calls :
      IF calls[i].op = "getAnchors" THEN calls[i].arg = req.domain
      ELSE calls[i].arg \in {FormatDomain(req.domain), HttpDomain(FormatDomain(req.domain))}

\* getAnchors called with a target that differs from the normalized domain
C20_RawTargetSent ==
  /\ handler = "getDomainMetrics"
  /\ \E i \in DOMAIN calls :
       /\ calls[i].op = "getAnchors"
       /\ calls[i].arg = req.domain
       /\ req.domain # FormatDomain(req.domain)
  /\ \E i \in DOMAIN calls :
       calls[i].op = "getBacklinksSummary" /\ calls[i].arg = FormatDomain(req.domain)


(***************************************************************************)
(* C21 -- within one request the provider calls are issued one after the   *)
(* other: no call begins before the one before it has settled; in          *)
(* getSerpCompetitors the order is the SERP lookup, keyword difficulty     *)
(* (and its fallback), site metrics; apart from the fallback-locale retry  *)
(* no provider operation is called more than once in a request.            *)
(***************************************************************************)
Begun == {i \in DOMAIN calls : calls[i].event = "begin"}

BegunOf(op) == {i \in Begun : calls[i].op = op}

\* the call begun at i has settled before position j
SettledBetween(i, j) ==
  \E k \in (i + 1)..(j - 1) : calls[k].event = "settle" /\ calls[k].step = calls[i].step

SerpRank(op) ==
  CASE op = "getGoogleSerp" -> 1
    [] op = "getKeywordDifficulty" -> 2
    [] op = "getMultipleSiteMetrics" -> 3

C21_OneCallAtATime ==
  handler \in {"getSerpCompetitors", "getDomainMetrics"} =>
    /\ \A i \in Begun : \A j \in Begun : i < j => SettledBetween(i, j)
    /\ handler = "getSerpCompetitors" =>
         \A i \in Begun : \A j \in Begun :
           i < j => SerpRank(calls[i].op) <= SerpRank(calls[j].op)
    /\ \A i \in Begun :
         IF calls[i].op = "getKeywordDifficulty"
           THEN /\ Cardinality(BegunOf(calls[i].op)) <= 2
                /\ Cardinality(BegunOf(calls[i].op)) = 2 =>
                     /\ req.fallbackLocale
                     /\ \E k \in DOMAIN calls :
                          /\ calls[k].step = "getKeywordDifficulty"
                          /\ calls[k].outcome = "rejected"
           ELSE Cardinality(BegunOf(calls[i].op)) = 1

\* getSerpCompetitors answered after four calls, the fallback retry among them
C21_Witness ==
  /\ handler = "getSerpCompetitors" /\ pc = "done"
  /\ Cardinality(Begun) = 4
  /\ Cardinality(BegunOf("getKeywordDifficulty")) = 2
  /\ Len(sent) = 1 /\ sent[1].status = 200


(***************************************************************************)
(* C22 -- in findOpportunities the keyword list passed to the              *)
(* keyword-metrics provider is exactly the comma-separated segments of the *)
(* generated text, each trimmed, the empty ones removed, in their order;   *)
(* if that list is empty the request fails with "No valid keywords found"  *)
(* and the keyword-metrics provider is not called.                         *)
(***************************************************************************)
\* the segments of a text, read character by character; cur is the segment being read
RECURSIVE SegmentsFrom(_, _)
SegmentsFrom(text, cur) ==
  IF text = <<>> THEN <<cur>>
  ELSE IF Head(text) = "," THEN <<cur>> \o SegmentsFrom(Tail(text), <<>>)
  ELSE SegmentsFrom(Tail(text), Append(cur, Head(text)))

RECURSIVE WithoutOuterSpaces(_)
WithoutOuterSpaces(k) ==
  IF k = <<>> THEN k
  ELSE IF Head(k) = " " THEN WithoutOuterSpaces(Tail(k))
  ELSE IF k[Len(k)] = " " THEN WithoutOuterSpaces(SubSeq(k, 1, Len(k) - 1))
  ELSE k

RECURSIVE TrimmedNonEmpty(_)
TrimmedNonEmpty(segments) ==
  IF segments = <<>> THEN <<>>
  ELSE IF WithoutOuterSpaces(Head(segments)) = <<>> THEN TrimmedNonEmpty(Tail(segments))
  ELSE <<WithoutOuterSpaces(Head(segments))>> \o TrimmedNonEmpty(Tail(segments))

ExpectedKeywords == TrimmedNonEmpty(SegmentsFrom(loc.generatedKeywords, <<>>))

C22_KeywordsAreTrimmedSegments ==
  (handler = "findOpportunities" /\ pc \in {"metrics", "done"}
     /\ CallsOf("generateKeywords") # {} /\ calls[1].ok /\ loc.generatedKeywords # <<>>) =>
    /\ \A i \in CallsOf("getKeywordsForKeywords") :
         calls[i].arg = ExpectedKeywords /\ calls[i].arg # <<>>
    /\ ExpectedKeywords = <<>> =>
         /\ pc = "done" /\ CallsOf("getKeywordsForKeywords") = {}
         /\ Len(sent) = 1 /\ sent[1].status = 500
         /\ sent[1].message = "No valid keywords found"
    /\ (ExpectedKeywords # <<>> /\ pc = "done") => CallsOf("getKeywordsForKeywords") # {}

\* "ab, c" went to the provider as ab and c
C22_Witness ==
  /\ handler = "findOpportunities" /\ pc = "done"
  /\ loc.generatedKeywords = <<"a", "b", ",", " ", "c">>
  /\ \E i \in CallsOf("getKeywordsForKeywords") : calls[i].arg = << <<"a", "b">>, <<"c">> >>

\* a text of commas and blanks only was refused without a provider call
C22_WitnessNoneValid ==
  /\ handler = "findOpportunities" /\ pc = "done"
  /\ loc.generatedKeywords = <<" ", ",", " ", ",">>
  /\ CallsOf("getKeywordsForKeywords") = {}
  /\ sent[1].message = "No valid keywords found"


(***************************************************************************)
(* C23 -- in every keyword record returned by findOpportunities,           *)
(* findOpportunitiesSV and findOpportunitiesLab, monthYears and            *)
(* monthlySearchVolumes have the length of the vendor's monthly_searches   *)
(* array, and element i of both is derived from vendor entry i: the order  *)
(* of the vendor is kept.                                                  *)
(***************************************************************************)
KeywordsAnswered ==
  /\ handler \in {"findOpportunities", "findOpportunitiesSV", "findOpportunitiesLab"}
  /\ Succeeded

\* the monthly_searches of a vendor entry, an entry without the array having none
MonthlyOf(monthly_searches) ==
  IF monthly_searches.kind = "array" THEN monthly_searches.items ELSE <<>>

\* the monthly searches the vendor sent for a keyword
VendorMonthly(keyword) ==
  IF handler = "findOpportunitiesLab"
    THEN MonthlyOf((CHOOSE item \in {loc.answer.items[i] : i \in 1..Len(loc.answer.items)} :
                      item.keyword = keyword).keyword_info.monthly_searches)
    ELSE MonthlyOf((CHOOSE e \in MetricsEntries : e.keyword = keyword).monthly_searches)

\* the record's two arrays follow the vendor's entries one by one
FollowsVendor(record, ms) ==
  /\ Len(record.monthYears) = Len(ms)
  /\ Len(record.monthlySearchVolumes) = Len(ms)
  /\ \A i \in 1..Len(ms) :
       /\ record.monthYears[i][2] = ms[i].year
       /\ ms[i].month \in 1..12 => record.monthYears[i][1] = MonthNames[ms[i].month]
       /\ record.monthlySearchVolumes[i]
            = (IF ms[i].search_volume.kind = "num" THEN ms[i].search_volume.val ELSE 0)

C23_MonthArraysFollowVendor ==
  KeywordsAnswered =>
    \A k \in 1..Len(sent[1].data.keywords) :
      FollowsVendor(sent[1].data.keywords[k], VendorMonthly(sent[1].data.keywords[k].keyword))

\* a record of findOpportunitiesLab with the three months of the vendor, one without volume
C23_Witness ==
  /\ KeywordsAnswered /\ handler = "findOpportunitiesLab"
  /\ \E k \in 1..Len(sent[1].data.keywords) :
       /\ Len(sent[1].data.keywords[k].monthYears) = 3
       /\ sent[1].data.keywords[k].monthlySearchVolumes = <<30, 0, 5>>
       /\ sent[1].data.keywords[k].monthYears[1] = <<"February", 2025>>

\* the same in findOpportunities, beside a record without monthly searches
C23_WitnessOpportunities ==
  /\ KeywordsAnswered /\ handler = "findOpportunities"
  /\ \E k \in 1..Len(sent[1].data.keywords) :
       sent[1].data.keywords[k].monthlySearchVolumes = <<30, 0, 5>>
  /\ \E k \in 1..Len(sent[1].data.keywords) : sent[1].data.keywords[k].monthYears = <<>>


(***************************************************************************)
(* C24 -- findOpportunitiesSV differs from findOpportunities only by       *)
(* skipping the non-brand filter: on the same metrics response, with any   *)
(* number of tasks, none and tasks without results included, its keyword   *)
(* list is all entries of all task results sorted by descending search     *)
(* volume and cut to 100.                                                  *)
(***************************************************************************)
SVMetricsReceived ==
  /\ handler = "findOpportunitiesSV" /\ pc = "done"
  /\ \E i \in CallsOf("getSearchVolumeForKeywords") : calls[i].ok

\* what findOpportunities keeps of the answer once no entry is filtered out
UnfilteredTop100 ==
  Slice(SortBySearchVolume(IF loc.tasks.kind = "array" THEN CollectResults(loc.tasks.items)
                           ELSE <<>>), TOP_100)

KeywordIds(records) == [i \in 1..Len(records) |-> records[i].keyword]

C24_SVIsUnfilteredOpportunities ==
  SVMetricsReceived =>
    /\ Len(sent) = 1 /\ sent[1].success
    /\ KeywordIds(sent[1].data.keywords) = KeywordIds(UnfilteredTop100)

\* the two agree where the answer has exactly one task and that task has a result array
C24_AgreeOnOneTaskWithResult ==
  (SVMetricsReceived /\ loc.tasks.kind = "array" /\ Len(loc.tasks.items) = 1
     /\ loc.tasks.items[1].result.kind = "array") =>
    /\ Len(sent) = 1 /\ sent[1].success
    /\ KeywordIds(sent[1].data.keywords) = KeywordIds(UnfilteredTop100)

\* two tasks with an entry each: only the first task's entry is returned
C24_SecondTaskDropped ==
  /\ SVMetricsReceived /\ loc.tasks.kind = "array" /\ Len(loc.tasks.items) = 2
  /\ Len(sent) = 1 /\ sent[1].success
  /\ Len(sent[1].data.keywords) = 1 /\ Len(UnfilteredTop100) = 2

\* no tasks at all: findOpportunitiesSV answers 500
C24_NoTasksIs500 ==
  /\ SVMetricsReceived /\ loc.tasks.kind # "array"
  /\ Len(sent) = 1 /\ sent[1].status = 500 /\ UnfilteredTop100 = <<>>


(***************************************************************************)
(* C25 -- the text-generation client sends the caller's temperature        *)
(* whenever one is supplied, the value 0 included, and 0.7 only when none  *)
(* is supplied; generateKeywords sends exactly one message, whose role is  *)
(* system.                                                                 *)
(***************************************************************************)
ChatRequested == handler = "score" /\ pc = "requested"

KeywordsRequested == handler = "score" /\ pc = "generated"

C25_CallerTemperatureSent ==
  /\ ChatRequested =>
       loc.temperature = (IF req.temperature.kind = "num" THEN req.temperature
                          ELSE JNum((7 * FX) \div 10))
  /\ KeywordsRequested =>
       Len(loc.messages) = 1 /\ loc.messages[1].role = "system"

\* the rule the code follows: a temperature of 0 is replaced like a missing one
C25_NonZeroTemperatureSent ==
  /\ ChatRequested =>
       loc.temperature = (IF req.temperature.kind = "num" /\ req.temperature.val # 0
                            THEN req.temperature ELSE JNum((7 * FX) \div 10))
  /\ ChatRequested => loc.messages = req.messages
  /\ KeywordsRequested =>
       /\ Len(loc.messages) = 1 /\ loc.messages[1].role = "system"
       /\ loc.temperature = JNum((7 * FX) \div 10)

\* temperature 0 was supplied and 0.7 was sent
C25_ZeroTemperatureReplaced ==
  /\ ChatRequested
  /\ req.temperature = JNum(0)
  /\ loc.temperature = JNum((7 * FX) \div 10)


(***************************************************************************)
(* C30 -- domain normalization is idempotent: normalizing the normalized   *)
(* form of any input gives the same string again, also for a repeated      *)
(* www. prefix, a scheme after www., or surrounding whitespace.            *)
(***************************************************************************)
C30_NormalizationIdempotent ==
  (InDomainHandler /\ req.domain # <<>>) =>
    FormatDomain(loc.formattedDomain) = loc.formattedDomain

\* www.www.a.io is normalized to www.a.io, and that to a.io
C30_SecondPrefixLeft ==
  /\ InDomainHandler
  /\ req.domain = <<"w", "w", "w", ".", "w", "w", "w", ".", "a", ".", "i", "o">>
  /\ loc.formattedDomain = <<"w", "w", "w", ".", "a", ".", "i", "o">>
  /\ FormatDomain(loc.formattedDomain) = <<"a", ".", "i", "o">>

\* the inputs on which a second normalization changes nothing
C30_IdempotentOnPlainInputs ==
  (InDomainHandler
     /\ req.domain \in {<<"e", "x", "a", "m", "p", "l", "e", ".", "c", "o", "m">>,
                        <<"h", "t", "t", "p", "s", ":", "/", "/", "w", "w", "w", ".", "E", "x", "a",
                          "m", "p", "l", "e", ".", "c", "o", "m", "/">>,
                        <<"h", "t", "t", "p", ":", "/", "/", "a", ".", "i", "o", "/", "/">>}) =>
    FormatDomain(loc.formattedDomain) = loc.formattedDomain


(***************************************************************************)
(* C28: one response for every invocation of an auth or user handler.      *)
(***************************************************************************)
\* the handler of request p has returned without sending anything
ReturnedSilent(p) == pc[p] = "done" /\ sent[p] = <<>>

\* C28: every invocation of register, login, logout, renewToken, getAllSessions and
\* getUserData sends exactly one HTTP response on every path: a handler that has
\* returned has sent one response, and no handler sends a second one.
C28_ExactlyOneResponse ==
  \A p \in Requests :
    /\ Len(sent[p]) <= 1
    /\ pc[p] = "done" => Len(sent[p]) = 1

\* what holds: no handler sends two responses, and only login of a deleted account
\* and getUserData without a userId return without one
C28_OneResponseElsewhere ==
  \A p \in Requests :
    /\ Len(sent[p]) <= 1
    /\ ReturnedSilent(p) =>
         \/ handler[p] = "login" /\ req[p].email = "d@x"
         \/ handler[p] = "getUserData" /\ req[p].userId = ""

\* login of the deleted account has returned and the client has no response
C28_LoginDeletedSilent ==
  \E p \in Requests :
    handler[p] = "login" /\ req[p].email = "d@x" /\ req[p].password # "" /\ ReturnedSilent(p)

\* getUserData without a userId has returned and the client has no response
C28_GetUserDataSilent ==
  \E p \in Requests : handler[p] = "getUserData" /\ req[p].userId = "" /\ ReturnedSilent(p)

\* login of the suspended account is answered 403
C28_LoginSuspendedAnswered ==
  \E p \in Requests :
    /\ handler[p] = "login" /\ req[p].email = "s@x" /\ pc[p] = "done"
    /\ Len(sent[p]) = 1 /\ sent[p][1].status = 403


(***************************************************************************)
(* C26: renewToken and the session table.                                  *)
(***************************************************************************)
\* request p is a renewToken whose handler has returned with the answer of that status
RenewAnswered(p, status) ==
  /\ handler[p] = "renewToken"
  /\ pc[p] = "done"
  /\ Len(sent[p]) = 1
  /\ sent[p][1].status = status

\* the ids of the session rows
SessionIds(table) == {s.id : s \in table.sessions}

\* C26: a refresh token that was passed to logout, or that a successful renewToken
\* has replaced by another one, is refused by renewToken: the request whose cookie
\* was such a token when it arrived never reaches the update of a session row and
\* is never answered 200.
C26_RetiredTokenRefused ==
  \A p \in Requests :
    (handler[p] = "renewToken" /\ loc[p].retired) =>
      /\ pc[p] # "renew:update"
      /\ ~RenewAnswered(p, 200)

\* what holds: renewToken goes on to the update only where a session row holds the
\* presented cookie, and only login adds a row to the session table
C26_RenewNeedsRowAndAddsNone ==
  [][/\ \A p \in Requests :
          (pc[p] = "renew:find" /\ pc'[p] = "renew:update") =>
            \E s \in db.sessions : s.token = req[p].refresh_token /\ s.id = loc'[p].checkSession
     /\ \A p \in Requests :
          (handler[p] = "renewToken" /\ pc[p] # "done" /\ pc'[p] = "done"
             /\ sent'[p][1].status = 200) => pc[p] = "renew:update"
     /\ (SessionIds(db') \subseteq SessionIds(db)
           \/ \E p \in Requests : pc[p] = "login:create" /\ pc'[p] = "done")]_vars

\* a token that logout took out of the table is accepted by a later renewToken
C26_LoggedOutTokenRenewed ==
  \E p \in Requests :
    /\ RenewAnswered(p, 200)
    /\ loc[p].retired
    /\ \A i \in DOMAIN calls : calls[i].op = "update" => calls[i].token # req[p].refresh_token \/ i = Len(calls)

\* a token that a renewToken replaced by another one is accepted by a later renewToken
\* (two logins of one second left two rows with that token, which takes a session table
\* without a unique index on token)
C26_ReplacedTokenRenewed ==
  \E p \in Requests :
    /\ RenewAnswered(p, 200)
    /\ loc[p].retired
    /\ ~\E i \in DOMAIN calls : calls[i].op = "deleteMany"

\* a retired token is answered 401 "Session not found"
C26_RetiredTokenNotFound ==
  \E p \in Requests :
    /\ RenewAnswered(p, 401)
    /\ loc[p].retired
    /\ sent[p][1].message = "Session not found"


(***************************************************************************)
(* C27: two renewToken requests with one refresh token, in flight together.*)
(***************************************************************************)
\* both requests are renewToken with the same cookie, the second arrived while the
\* first was in flight, and both handlers have returned
BothRenewalsFinished ==
  /\ db.overlap
  /\ \A p \in Requests : handler[p] = "renewToken" /\ pc[p] = "done"
  /\ req[1].refresh_token = req[2].refresh_token

\* the session table holds the refresh token the answer of request p has set
TokenHeld(p) == \E s \in db.sessions : s.token = sent[p][1].refresh_token

\* C27: of two concurrent renewToken requests with the same refresh token, every one
\* that is answered 200 hands its client a refresh token that a session row holds
\* once both have finished.
C27_EveryRenewedTokenHeld ==
  BothRenewalsFinished => \A p \in Requests : RenewAnswered(p, 200) => TokenHeld(p)

\* what holds: where any of the two is answered 200, the token of one of them is held
C27_SomeRenewedTokenHeld ==
  (BothRenewalsFinished /\ \E p \in Requests : RenewAnswered(p, 200)) =>
    \E p \in Requests : RenewAnswered(p, 200) /\ TokenHeld(p)

\* both are answered 200 and the token of one of them is in no session row
C27_RenewedTokenLost ==
  /\ BothRenewalsFinished
  /\ \A p \in Requests : RenewAnswered(p, 200)
  /\ \E p \in Requests : ~TokenHeld(p)

\* both are answered 200 within one second: the same token, held
C27_BothHeldInOneSecond ==
  /\ BothRenewalsFinished
  /\ \A p \in Requests : RenewAnswered(p, 200) /\ TokenHeld(p)


(***************************************************************************)
(* C29: checkAuthorization.                                                *)
(***************************************************************************)
Authorization == handler = "score" /\ pc = "authorization"

\* the permissions of the role: the role row's in the first revision, the cookie's in
\* the second
CarriedPermissions ==
  IF req.user_data.kind # "user" THEN {}
  ELSE IF ver = "v1" THEN req.checkRole.permissions
  ELSE IF req.user_data.role.hasPermissions THEN req.user_data.role.permissions
  ELSE {}

\* the cookie names the role admin, or the role carries a permission of the module
\* with the action's flag set
Allowed ==
  /\ req.user_data.kind = "user"
  /\ \/ req.user_data.role.name = "admin"
     \/ \E permission \in CarriedPermissions :
          permission.module = req.module /\ permission[req.action]

C29_WitnessFlagFalse ==
  /\ Authorization
  /\ req.user_data.kind = "user" /\ req.user_data.role.name = "moderator"
  /\ \E permission \in CarriedPermissions : permission.module = req.module
  /\ ~Allowed /\ loc.next = 0 /\ loc.sent[1].status = 403

\* a cookie that cannot be decrypted is refused with 401
C29_WitnessUndecryptable ==
  /\ Authorization
  /\ req.user_data.kind = "undecryptable"
  /\ loc.next = 0 /\ loc.sent[1].status = 401

====
